---- MODULE Spec2Model ----
(***************************************************************************)
(* A model of the orangutan bytecode compiler and virtual machine:         *)
(*   - the symbol table      (src/src/compiler/symbol_table.rs)            *)
(*   - the compiler          (src/src/compiler.rs)                         *)
(*   - the instruction set   (src/src/code.rs)                             *)
(*   - the virtual machine   (src/src/vm.rs)                               *)
(* Rust vectors are 0-based, TLA+ sequences 1-based: element i of a Rust   *)
(* vector is element i+1 of the sequence that models it.                   *)
(***************************************************************************)
EXTENDS Integers, Sequences, FiniteSets, TLC

VARIABLES
    tbl,          \* SymbolTable driven directly by SpecSym
    ndefs,        \* history: per scope of tbl, the number of define calls made in it
    topdefs,      \* history: the names defined at the outermost scope of tbl
    resolved,     \* history: per name, the result of its last resolve in the current
                  \* scope since the last define, enter_scope or leave_scope
    last,         \* history: the last symbol-table operation, its argument and result
    nops,         \* the number of symbol-table operations issued so far
    input,        \* the program (or bytecode) handed to compile and Vm::new
    build,        \* the build profile of the binary: "debug" or "release"
    compile_err,  \* "none", or the CompileError compile returned
    constants,    \* Vm.constants
    globals,      \* Vm.globals, the slots written so far
    stack,        \* Vm.stack, the slots written so far
    sp,           \* Vm.sp
    frames,       \* Vm.frames
    frames_index, \* Vm.frames_index
    err,          \* "none", the VmError run returned, or "panic"
    result,       \* None, or Some(the object run returned with Ok)
    ret,          \* history: None, or Some(the value the last pop returned)
    calls,        \* history: per callee frame, the Call that pushed it
    vlast,        \* history: the last instruction run executed, with the sp, the
                  \* frame and the two topmost stack slots it started from
    repl,         \* the loop of start_with_compiler: its round, the line read, the
                  \* shared constant pool, and (history) per name the symbol its
                  \* last let defined and the value that let stored
    code          \* the instruction-encoding exercise of SpecCode: the operation
                  \* applied last, its inputs and what it returned

symvars == <<tbl, ndefs, topdefs, resolved, last, nops>>

vmvars == <<input, build, compile_err, constants, globals, stack, sp, frames,
            frames_index, err, result, ret, calls, vlast, repl>>

vars == <<symvars, vmvars, code>>

(***************************************************************************)
(* Bounds of the symbol-table exploration.                                 *)
(***************************************************************************)
MaxDepth == 4
MaxDefs == 2
MaxSymOps == 7

U16 == 65536
U8 == 256

None == [ok |-> FALSE]
Some(x) == [ok |-> TRUE, v |-> x]

EmptyMap == [x \in {} |-> 0]
Insert(m, k, v) == [x \in (DOMAIN m) \cup {k} |-> IF x = k THEN v ELSE m[x]]

(***************************************************************************)
(* Built-in functions, in the order of BuiltIn::all(); the position is the *)
(* value of the enum, i.e. the operand of GetBuiltin.                      *)
(***************************************************************************)
BuiltInAll == <<"len", "first", "last", "rest", "push", "puts", "magic_number">>

(***************************************************************************)
(* Symbol and SymbolStore                                                  *)
(***************************************************************************)
SymbolScope == {"Global", "Local", "BuiltIn", "Free", "Function"}

Symbol(scope, index) == [scope |-> scope, index |-> index]

SymbolStore_new == [store |-> EmptyMap, num_definitions |-> 0, free_symbols |-> <<>>]

define_free(st, name, original) ==
    LET fs == Append(st.free_symbols, original)
        symbol == Symbol("Free", (Len(fs) - 1) % U16)
    IN  [st EXCEPT !.free_symbols = fs, !.store = Insert(st.store, name, symbol)]

\* define_with_scope counting an explicit index as a definition too
define_with_scope_counts_all(st, name, scope, index) ==
    LET nd == (st.num_definitions + 1) % U16
        idx == IF index.ok THEN index.v ELSE (nd - 1) % U16
    IN  [st EXCEPT !.num_definitions = nd,
                   !.store = Insert(st.store, name, Symbol(scope, idx))]

\* index is None or Some(idx)
define_with_scope(st, name, scope, index) ==
    LET nd == IF index.ok THEN st.num_definitions ELSE (st.num_definitions + 1) % U16
        idx == IF index.ok THEN index.v ELSE (nd - 1) % U16
    IN  [st EXCEPT !.num_definitions = nd,
                   !.store = Insert(st.store, name, Symbol(scope, idx))]

SymbolStore_resolve(st, name) ==
    IF name \in DOMAIN st.store THEN [ok |-> TRUE, sym |-> st.store[name]] ELSE None

(***************************************************************************)
(* SymbolTable                                                             *)
(***************************************************************************)
SymbolTable_new == [stores |-> <<SymbolStore_new>>, store_index |-> 1]

define_builtin(t, name, index) ==
    [t EXCEPT !.stores[1] = define_with_scope(t.stores[1], name, "BuiltIn", Some(index))]

RECURSIVE define_builtins_from(_, _)
define_builtins_from(t, i) ==
    IF i > Len(BuiltInAll) THEN t
    ELSE define_builtins_from(define_builtin(t, BuiltInAll[i], i - 1), i + 1)

new_with_builtins == define_builtins_from(SymbolTable_new, 1)

num_definitions(t) == t.stores[t.store_index].num_definitions

enter_scope(t) ==
    [stores |-> Append(t.stores, SymbolStore_new), store_index |-> t.store_index + 1]

leave_scope(t) ==
    [stores |-> SubSeq(t.stores, 1, Len(t.stores) - 1), store_index |-> t.store_index - 1]

define(t, name) ==
    LET scope == IF t.store_index > 1 THEN "Local" ELSE "Global"
    IN  [t EXCEPT !.stores[t.store_index] =
                      define_with_scope(t.stores[t.store_index], name, scope, None)]

\* the symbol define(t, name) returns: the entry it has just stored
defined_symbol(t, name) == define(t, name).stores[t.store_index].store[name]

RECURSIVE resolve_with_index(_, _, _)
resolve_with_index(t, name, index) ==
    LET r == SymbolStore_resolve(t.stores[index + 1], name)
    IN  IF r.ok THEN [ok |-> TRUE, sym |-> r.sym, index |-> index]
        ELSE IF index > 0 THEN resolve_with_index(t, name, index - 1)
        ELSE None

\* resolve promoting every symbol found in an enclosing scope, whatever its kind
resolve_promotes_all(t, name) ==
    LET current_index == t.store_index - 1
        r == resolve_with_index(t, name, current_index)
    IN  IF ~r.ok THEN [ok |-> FALSE, tbl |-> t]
        ELSE IF r.index = current_index
             THEN [ok |-> TRUE, sym |-> r.sym, tbl |-> t]
        ELSE LET st == define_free(t.stores[r.index + 1], name, r.sym)
             IN  [ok |-> TRUE, sym |-> st.store[name],
                  tbl |-> [t EXCEPT !.stores[r.index + 1] = st]]

\* resolve promoting a BuiltIn found from a nested scope like a Local
resolve_promotes_builtin(t, name) ==
    LET current_index == t.store_index - 1
        r == resolve_with_index(t, name, current_index)
    IN  IF ~r.ok THEN [ok |-> FALSE, tbl |-> t]
        ELSE IF r.index = current_index \/ r.sym.scope \notin {"Local", "BuiltIn"}
             THEN [ok |-> TRUE, sym |-> r.sym, tbl |-> t]
        ELSE LET st == define_free(t.stores[r.index + 1], name, r.sym)
             IN  [ok |-> TRUE, sym |-> st.store[name],
                  tbl |-> [t EXCEPT !.stores[r.index + 1] = st]]

\* [ok, sym, tbl]: the result and the table after the call
resolve(t, name) ==
    LET current_index == t.store_index - 1
        r == resolve_with_index(t, name, current_index)
    IN  IF ~r.ok THEN [ok |-> FALSE, tbl |-> t]
        ELSE IF r.index = current_index \/ r.sym.scope # "Local"
             THEN [ok |-> TRUE, sym |-> r.sym, tbl |-> t]
        ELSE LET st == define_free(t.stores[r.index + 1], name, r.sym)
             IN  [ok |-> TRUE, sym |-> st.store[name],
                  tbl |-> [t EXCEPT !.stores[r.index + 1] = st]]

\* Not in symbol_table.rs; called by compiler.rs:160 and :170.
define_function_name(t, name) ==
    [t EXCEPT !.stores[t.store_index] =
                  define_with_scope(t.stores[t.store_index], name, "Function", Some(0))]

free_symbols(t) == t.stores[t.store_index].free_symbols

(***************************************************************************)
(* Instruction set (code.rs).  An opcode is named by its variant; its byte *)
(* is its position in the enum.  GetFree and CurrentClosure are used by    *)
(* vm.rs and compiler.rs but not declared in code.rs: they are placed      *)
(* after the declared variants.                                            *)
(***************************************************************************)
OpCodeDeclared ==
    <<"Null", "Constant", "Call", "Add", "Sub", "Mul", "Div", "Pop", "True", "False",
      "Equal", "NotEqual", "GreaterThan", "Minus", "Bang", "Jump", "JumpNotTruthy",
      "GetGlobal", "SetGlobal", "GetLocal", "SetLocal", "GetBuiltin", "Array", "Hash",
      "Index", "ReturnValue", "Return", "Closure">>

OpCodeUndeclared == <<"GetFree", "CurrentClosure">>

OpCode == OpCodeDeclared \o OpCodeUndeclared

\* u8::from(op)
into(op) == (CHOOSE i \in 1..Len(OpCode) : OpCode[i] = op) - 1

\* OpCode::try_from(byte)
try_from(b) == IF b + 1 <= Len(OpCode) THEN Some(OpCode[b + 1]) ELSE None

\* OpCode::definition(): the operand widths
widths(op) ==
    CASE op = "Closure" -> <<2, 1>>
      [] op \in {"GetBuiltin", "Call", "GetLocal", "SetLocal"} -> <<1>>
      [] op \in {"Hash", "Array", "GetGlobal", "SetGlobal", "Constant", "Jump",
                 "JumpNotTruthy"} -> <<2>>
      [] op = "GetFree" -> <<1>>
      [] OTHER -> <<>>

make(op) == <<into(op)>>

\* make_u16 writing the low byte first
make_u16_little_endian(op, operand) == <<into(op), operand % U8, operand \div U8>>

make_u16(op, operand) == <<into(op), operand \div U8, operand % U8>>

make_u8(op, operand) == <<into(op), operand>>

make_u16_u8(op, operand16, operand8) ==
    <<into(op), operand16 \div U8, operand16 % U8, operand8>>

read_uint16(b0, b1) == b0 * U8 + b1

\* OpCode::definition(): the name
definition_name(op) == "Op" \o op

\* the loop of read_operands from width i on; ok is FALSE when an operand
\* byte lies behind the end of instructions (the index panics)
RECURSIVE read_operands_from(_, _, _, _, _)
read_operands_from(ws, instructions, i, operands, offset) ==
    IF i > Len(ws) THEN [ok |-> TRUE, operands |-> operands, n |-> offset]
    ELSE IF offset + ws[i] > Len(instructions)
         THEN [ok |-> FALSE, operands |-> operands, n |-> offset]
    ELSE read_operands_from(
             ws, instructions, i + 1,
             Append(operands,
                    IF ws[i] = 2
                    THEN read_uint16(instructions[offset + 1], instructions[offset + 2])
                    ELSE instructions[offset + 1]),
             offset + ws[i])

read_operands(ws, instructions) == read_operands_from(ws, instructions, 1, <<>>, 0)

\* format!("{:04}", ip)
format_04(ip) ==
    CASE ip < 10 -> "000" \o ToString(ip)
      [] ip >= 10 /\ ip < 100 -> "00" \o ToString(ip)
      [] ip >= 100 /\ ip < 1000 -> "0" \o ToString(ip)
      [] OTHER -> ToString(ip)

\* join(sep) of a vector of strings
RECURSIVE join(_, _)
join(strings, sep) ==
    IF Len(strings) = 0 THEN ""
    ELSE IF Len(strings) = 1 THEN strings[1]
    ELSE strings[1] \o sep \o join(Tail(strings), sep)

\* the operands of one line, each formatted with "{}"
format_operands(operands) == [i \in 1..Len(operands) |-> ToString(operands[i])]

\* the loop of disassemble at ip (0-based) with the lines pushed so far; the
\* line of a byte that is no opcode is built and never pushed
RECURSIVE disassemble_from(_, _, _)
disassemble_from(instructions, ip, all_instructions) ==
    IF ip >= Len(instructions) THEN [ok |-> TRUE, lines |-> all_instructions]
    ELSE LET op == try_from(instructions[ip + 1])
         IN  IF ~op.ok THEN disassemble_from(instructions, ip + 1, all_instructions)
             ELSE LET r == read_operands(widths(op.v),
                                         SubSeq(instructions, ip + 2, Len(instructions)))
                  IN  IF ~r.ok THEN [ok |-> FALSE, lines |-> all_instructions]
                      ELSE disassemble_from(
                               instructions, ip + 1 + r.n,
                               Append(all_instructions,
                                      join(<<format_04(ip), definition_name(op.v)>>
                                           \o format_operands(r.operands), " ")))

\* disassemble: the lines joined; ok is FALSE when read_operands panicked
disassemble(instructions) ==
    LET d == disassemble_from(instructions, 0, <<>>)
    IN  [ok |-> d.ok, lines |-> d.lines, text |-> join(d.lines, "\n")]

\* no operation of code.rs applied yet
NoCode == [step |-> "new", op |-> "", operands |-> <<>>, bytes |-> <<>>, items |-> <<>>,
           read |-> [ok |-> TRUE, operands |-> <<>>, n |-> 0],
           dis |-> [ok |-> TRUE, lines |-> <<>>, text |-> ""]]

(***************************************************************************)
(* Objects (object/mod.rs): a record tagged by its variant.                *)
(***************************************************************************)
Null == [t |-> "Null"]
Integer(i) == [t |-> "Integer", v |-> i]
Boolean(b) == [t |-> "Boolean", v |-> b]
Str(x) == [t |-> "Str", v |-> x]
Array(elems) == [t |-> "Array", v |-> elems]
Hash(m) == [t |-> "Hash", v |-> m]
BuiltInObj(i) == [t |-> "BuiltIn", v |-> i]
CompiledFunction(ins, nl, np) ==
    [t |-> "CompiledFunction", instructions |-> ins, num_locals |-> nl,
     num_parameters |-> np]
Closure(func, free) == [t |-> "Closure", compiled_function |-> func, free |-> free]

(***************************************************************************)
(* CompilationScope (compiler.rs)                                          *)
(***************************************************************************)
CompilationScope_new ==
    [instructions |-> <<>>, last_instruction |-> None, previous_instruction |-> None]

Scope_last_instruction_is(sc, op) ==
    sc.last_instruction.ok /\ sc.last_instruction.v.opcode = op

\* emit, add_instruction and set_last_instruction
Scope_emit(sc, ins) ==
    [instructions |-> sc.instructions \o ins,
     last_instruction |-> Some([opcode |-> try_from(ins[1]).v,
                                position |-> Len(sc.instructions)]),
     previous_instruction |-> sc.last_instruction]

Scope_remove_last_pop(sc) ==
    IF ~Scope_last_instruction_is(sc, "Pop") THEN sc
    ELSE [instructions |-> SubSeq(sc.instructions, 1, Len(sc.instructions) - 1),
          last_instruction |-> sc.previous_instruction,
          previous_instruction |-> None]

Scope_replace_instructions(sc, pos, new_instructions) ==
    [sc EXCEPT !.instructions =
        [k \in 1..Len(sc.instructions) |->
            IF k - 1 >= pos /\ k - 1 < pos + Len(new_instructions)
            THEN new_instructions[k - pos] ELSE sc.instructions[k]]]

Scope_replace_last_pop_with_return(sc) ==
    IF ~Scope_last_instruction_is(sc, "Pop") THEN sc
    ELSE Scope_replace_instructions(
             [sc EXCEPT !.last_instruction =
                 Some([opcode |-> "ReturnValue", position |-> sc.last_instruction.v.position])],
             sc.last_instruction.v.position, make("ReturnValue"))

(***************************************************************************)
(* Compiler (compiler.rs).  A compiler state is a record; err is "none"    *)
(* until a CompileError is raised, and every `?` of the source returns the *)
(* state it has reached with err set.                                      *)
(* AST (ast.rs): a statement is a record tagged s, an expression a record  *)
(* tagged e; a block is the sequence of its statements.                    *)
(***************************************************************************)
Compiler_new_with_state(symbol_table, consts) ==
    [constants |-> consts, symbol_table |-> symbol_table,
     scopes |-> <<CompilationScope_new>>, scope_index |-> 0, err |-> "none"]

Compiler_new == Compiler_new_with_state(new_with_builtins, <<>>)

current_instructions(c) == c.scopes[c.scope_index + 1].instructions

bytecode(c) == [instructions |-> current_instructions(c), constants |-> c.constants]

Compiler_enter_scope(c) ==
    [c EXCEPT !.scopes = Append(@, CompilationScope_new),
              !.symbol_table = enter_scope(@),
              !.scope_index = @ + 1]

\* the compiler after leave_scope; the instructions it returns are
\* current_instructions of the state before the call
Compiler_leave_scope(c) ==
    [c EXCEPT !.scope_index = @ - 1,
              !.scopes = SubSeq(@, 1, Len(@) - 1),
              !.symbol_table = leave_scope(@)]

\* load_symbol with the function's own name read as the global binding
load_symbol_function_as_global(symbol) ==
    CASE symbol.scope = "Global" -> make_u16("GetGlobal", symbol.index)
      [] symbol.scope = "Local" -> make_u8("GetLocal", symbol.index % U8)
      [] symbol.scope = "BuiltIn" -> make_u8("GetBuiltin", symbol.index % U8)
      [] symbol.scope = "Free" -> make_u8("GetFree", symbol.index % U8)
      [] symbol.scope = "Function" -> make_u16("GetGlobal", symbol.index)

load_symbol(symbol) ==
    CASE symbol.scope = "Global" -> make_u16("GetGlobal", symbol.index)
      [] symbol.scope = "Local" -> make_u8("GetLocal", symbol.index % U8)
      [] symbol.scope = "BuiltIn" -> make_u8("GetBuiltin", symbol.index % U8)
      [] symbol.scope = "Free" -> make_u8("GetFree", symbol.index % U8)
      [] symbol.scope = "Function" -> make("CurrentClosure")

(***************************************************************************)
(* A compiler state c carries c.err: "none", or the CompileError a `?` has *)
(* returned.  Every step below leaves a state with an error as it is, so a *)
(* chain of steps ends in the state the compiler was in when the error was *)
(* returned.  A method whose later lines read a value computed by its      *)
(* earlier lines is split where the value is computed: the later lines     *)
(* are an operator of their own that takes the value as a parameter.       *)
(***************************************************************************)
\* the constant pool after add_constant; the index returned is add_constant_index
add_constant(c, constant) ==
    IF c.err # "none" THEN c ELSE [c EXCEPT !.constants = Append(@, constant)]

add_constant_index(c) == Len(c.constants) % U16

emit(c, ins) ==
    IF c.err # "none" THEN c
    ELSE [c EXCEPT !.scopes[c.scope_index + 1] = Scope_emit(@, ins)]

remove_last_pop(c) ==
    IF c.err # "none" THEN c
    ELSE [c EXCEPT !.scopes[c.scope_index + 1] = Scope_remove_last_pop(@)]

replace_instructions(c, pos, ins) ==
    IF c.err # "none" THEN c
    ELSE [c EXCEPT !.scopes[c.scope_index + 1] = Scope_replace_instructions(@, pos, ins)]

replace_last_pop_with_return(c) ==
    IF c.err # "none" THEN c
    ELSE [c EXCEPT !.scopes[c.scope_index + 1] = Scope_replace_last_pop_with_return(@)]

last_instruction_is(c, op) == Scope_last_instruction_is(c.scopes[c.scope_index + 1], op)

Raise(c, e) == IF c.err # "none" THEN c ELSE [c EXCEPT !.err = e]

RECURSIVE define_parameters(_, _, _)
define_parameters(c, parameters, i) ==
    IF i > Len(parameters) THEN c
    ELSE define_parameters([c EXCEPT !.symbol_table = define(@, parameters[i])],
                           parameters, i + 1)

RECURSIVE emit_load_symbols(_, _, _)
emit_load_symbols(c, symbols, i) ==
    IF i > Len(symbols) THEN c
    ELSE emit_load_symbols(emit(c, load_symbol(symbols[i])), symbols, i + 1)

InfixOpCode(infix) ==
    CASE infix = "+" -> Some("Add")
      [] infix = "-" -> Some("Sub")
      [] infix = "*" -> Some("Mul")
      [] infix = "/" -> Some("Div")
      [] infix = "==" -> Some("Equal")
      [] infix = "!=" -> Some("NotEqual")
      [] infix \in {">", "<"} -> Some("GreaterThan")
      [] OTHER -> None

PrefixOpCode(prefix) ==
    CASE prefix = "!" -> Some("Bang")
      [] prefix = "-" -> Some("Minus")
      [] OTHER -> None

\* the end of the Prefix and Infix arms: the opcode of the operator, or
\* UnknownOperator
emit_operator(c, opcode) ==
    IF opcode.ok THEN emit(c, make(opcode.v)) ELSE Raise(c, "UnknownOperator")

\* the end of the Let arm: symbol is what define returned
emit_set(c, symbol) ==
    CASE symbol.scope = "Global" -> emit(c, make_u16("SetGlobal", symbol.index))
      [] symbol.scope = "Local" -> emit(c, make_u8("SetLocal", symbol.index % U8))
      [] OTHER -> Raise(c, "UnknownError")

\* the Ident arm after resolve
\* emit_load loading global 0 for a name that did not resolve
emit_load_unresolved_as_global(c, symbol_result) ==
    IF symbol_result.ok
    THEN emit([c EXCEPT !.symbol_table = symbol_result.tbl], load_symbol(symbol_result.sym))
    ELSE emit([c EXCEPT !.symbol_table = symbol_result.tbl], make_u16("GetGlobal", 0))

emit_load(c, symbol_result) ==
    IF symbol_result.ok
    THEN emit([c EXCEPT !.symbol_table = symbol_result.tbl], load_symbol(symbol_result.sym))
    ELSE Raise([c EXCEPT !.symbol_table = symbol_result.tbl], "SymbolNotFound")

\* the FunctionLiteral arm from enter_scope to the parameters
function_scope(c, x) ==
    define_parameters(IF x.name.ok
                      THEN [c EXCEPT !.symbol_table = define_function_name(@, x.name.v)]
                      ELSE c,
                      x.parameters, 1)

\* the FunctionLiteral arm appending no Return
emit_return_never(c) == c

\* `if !self.last_instruction_is(ReturnValue) { self.emit(Return) }`
emit_return(c) ==
    IF c.err = "none" /\ ~last_instruction_is(c, "ReturnValue")
    THEN emit(c, make("Return")) ELSE c

\* the FunctionLiteral arm from add_constant on; c is the enclosing scope
\* with the loads of the free symbols emitted
emit_closure(c, compiled_function, num_free) ==
    emit(add_constant(c, compiled_function),
         make_u16_u8("Closure", add_constant_index(c), num_free % U8))

\* the FunctionLiteral arm from free_symbols() on; c is the function's scope
\* with its body complete
function_leave(c, x) ==
    IF c.err # "none" THEN c
    ELSE emit_closure(emit_load_symbols(Compiler_leave_scope(c),
                                        free_symbols(c.symbol_table), 1),
                      CompiledFunction(current_instructions(c),
                                       num_definitions(c.symbol_table),
                                       Len(x.parameters)),
                      Len(free_symbols(c.symbol_table)))

\* the Infix arm with the operands of < in source order
infix_operands_unflipped(x) == <<x.left, x.right>>

\* the first match of the Infix arm: the operands in the order they are
\* compiled, flipped for < so that GreaterThan is re-used
infix_operands(x) == IF x.op = "<" THEN <<x.right, x.left>> ELSE <<x.left, x.right>>

\* the If arm with the Jump left as emitted
if_patch_jump_keeps_placeholder(c, jump_pos) == c

\* the If arm with the Jump going back to the start of the buffer
if_patch_jump_backwards(c, jump_pos) ==
    replace_instructions(c, jump_pos, make_u16("Jump", 0))

\* the end of the If arm: the Jump at jump_pos gets the length reached
if_patch_jump(c, jump_pos) ==
    replace_instructions(c, jump_pos,
                         make_u16("Jump", Len(current_instructions(c)) % U16))

\* replace_instructions(jump_not_truthy_pos, ..): c has the Jump emitted
if_patch_jump_not_truthy(c, jump_not_truthy_pos) ==
    replace_instructions(c, jump_not_truthy_pos,
                         make_u16("JumpNotTruthy", Len(current_instructions(c)) % U16))

\* the Expression arm leaving the value of the expression on the stack
expression_statement_keeps_value(c) == c

\* the end of the Expression arm: the value of the statement is popped
expression_statement_pop(c) == emit(c, make("Pop"))

RECURSIVE compile_statement(_, _)
RECURSIVE compile_expression(_, _)
RECURSIVE compile_statements(_, _, _)
RECURSIVE compile_expressions(_, _, _)
RECURSIVE compile_pairs(_, _, _)

\* the loop of compile and of compile_block_statement
compile_statements(c, statements, i) ==
    IF c.err # "none" \/ i > Len(statements) THEN c
    ELSE compile_statements(compile_statement(c, statements[i]), statements, i + 1)

compile_expressions(c, exprs, i) ==
    IF c.err # "none" \/ i > Len(exprs) THEN c
    ELSE compile_expressions(compile_expression(c, exprs[i]), exprs, i + 1)

compile_pairs(c, pairs, i) ==
    IF c.err # "none" \/ i > Len(pairs) THEN c
    ELSE compile_pairs(compile_expression(compile_expression(c, pairs[i][1]), pairs[i][2]),
                       pairs, i + 1)

compile_statement(c, statement) ==
    IF c.err # "none" THEN c
    ELSE CASE statement.s = "Expression" ->
            expression_statement_pop(compile_expression(c, statement.expr))
      [] statement.s = "Let" ->
            emit_set(compile_expression([c EXCEPT !.symbol_table = define(@, statement.name)],
                                        statement.expr),
                     defined_symbol(c.symbol_table, statement.name))
      [] statement.s = "Return" ->
            emit(compile_expression(c, statement.expr), make("ReturnValue"))

compile_function_literal(c, x) ==
    function_leave(
        emit_return(
            replace_last_pop_with_return(
                compile_statements(function_scope(Compiler_enter_scope(c), x), x.body, 1))),
        x)

\* the If arm with the Null emitted before the JumpNotTruthy is patched
if_alternative_null_before_patch(c, x, jump_not_truthy_pos) ==
    if_patch_jump(
        IF ~x.alt.ok
        THEN if_patch_jump_not_truthy(emit(emit(c, make_u16("Jump", 9999)), make("Null")),
                                      jump_not_truthy_pos)
        ELSE remove_last_pop(
                 compile_statements(
                     if_patch_jump_not_truthy(emit(c, make_u16("Jump", 9999)),
                                              jump_not_truthy_pos),
                     x.alt.v, 1)),
        Len(current_instructions(c)))

\* the If arm from the Jump on: c is the scope after the consequence and
\* remove_last_pop, so the Jump is emitted at the length of c
if_alternative(c, x, jump_not_truthy_pos) ==
    if_patch_jump(
        IF ~x.alt.ok
        THEN emit(if_patch_jump_not_truthy(emit(c, make_u16("Jump", 9999)),
                                           jump_not_truthy_pos),
                  make("Null"))
        ELSE remove_last_pop(
                 compile_statements(
                     if_patch_jump_not_truthy(emit(c, make_u16("Jump", 9999)),
                                              jump_not_truthy_pos),
                     x.alt.v, 1)),
        Len(current_instructions(c)))

\* the If arm from the JumpNotTruthy on: c is the scope after the condition
if_consequence(c, x) ==
    if_alternative(
        remove_last_pop(compile_statements(emit(c, make_u16("JumpNotTruthy", 9999)),
                                           x.cons, 1)),
        x, Len(current_instructions(c)))

compile_if(c, x) == if_consequence(compile_expression(c, x.cond), x)

compile_expression(c, x) ==
    IF c.err # "none" THEN c
    ELSE CASE x.e = "Call" ->
            emit(compile_expressions(compile_expression(c, x.func), x.args, 1),
                 make_u8("Call", Len(x.args) % U8))
      [] x.e = "FunctionLiteral" -> compile_function_literal(c, x)
      [] x.e = "Ident" -> emit_load(c, resolve(c.symbol_table, x.name))
      [] x.e = "If" -> compile_if(c, x)
      [] x.e = "Prefix" ->
            emit_operator(compile_expression(c, x.right), PrefixOpCode(x.op))
      [] x.e = "Infix" ->
            emit_operator(compile_expressions(c, infix_operands(x), 1), InfixOpCode(x.op))
      [] x.e = "IntegerLiteral" ->
            emit(add_constant(c, Integer(x.v)), make_u16("Constant", add_constant_index(c)))
      [] x.e = "StringLiteral" ->
            emit(add_constant(c, Str(x.v)), make_u16("Constant", add_constant_index(c)))
      [] x.e = "BooleanLiteral" ->
            emit(c, make(IF x.v THEN "True" ELSE "False"))
      [] x.e = "ArrayLiteral" ->
            emit(compile_expressions(c, x.elements, 1),
                 make_u16("Array", Len(x.elements) % U16))
      [] x.e = "HashLiteral" ->
            emit(compile_pairs(c, x.pairs, 1),
                 make_u16("Hash", (2 * (Len(x.pairs) % U16)) % U16))
      [] x.e = "Index" ->
            emit(compile_expression(compile_expression(c, x.left), x.index), make("Index"))

\* compile: the compiler state after the call; it returns bytecode(state) when
\* state.err is "none" and the CompileError state.err otherwise
compile(c, program) == compile_statements(c, program, 1)

(***************************************************************************)
(* AST constructors                                                        *)
(***************************************************************************)
Let(name, expr) == [s |-> "Let", name |-> name, expr |-> expr]
Return(expr) == [s |-> "Return", expr |-> expr]
Expression(expr) == [s |-> "Expression", expr |-> expr]
Ident(name) == [e |-> "Ident", name |-> name]
IntegerLiteral(v) == [e |-> "IntegerLiteral", v |-> v]
BooleanLiteral(v) == [e |-> "BooleanLiteral", v |-> v]
StringLiteral(v) == [e |-> "StringLiteral", v |-> v]
Prefix(op, right) == [e |-> "Prefix", op |-> op, right |-> right]
Infix(left, op, right) == [e |-> "Infix", left |-> left, op |-> op, right |-> right]
If(cond, cons, alt) == [e |-> "If", cond |-> cond, cons |-> cons, alt |-> alt]
FunctionLiteral(parameters, body, name) ==
    [e |-> "FunctionLiteral", parameters |-> parameters, body |-> body, name |-> name]
Call(func, args) == [e |-> "Call", func |-> func, args |-> args]
ArrayLiteral(elements) == [e |-> "ArrayLiteral", elements |-> elements]
Index(left, index) == [e |-> "Index", left |-> left, index |-> index]
HashLiteral(pairs) == [e |-> "HashLiteral", pairs |-> pairs]

(***************************************************************************)
(* Built-in functions (object/built_in_functions.rs).  A string value is   *)
(* the sequence of its characters.  The result is [ok, v] or [ok, err].    *)
(***************************************************************************)
BuiltInErr(e) == [ok |-> FALSE, err |-> e]

builtin_len(params) ==
    IF Len(params) # 1 THEN BuiltInErr("WrongNumberOfArguments")
    ELSE IF params[1].t \in {"Str", "Array"} THEN Some(Integer(Len(params[1].v)))
    ELSE BuiltInErr("UnsupportedInputToBuiltIn")

builtin_first(params) ==
    IF Len(params) # 1 THEN BuiltInErr("WrongNumberOfArguments")
    ELSE IF params[1].t = "Array"
         THEN IF Len(params[1].v) > 0 THEN Some(params[1].v[1]) ELSE Some(Null)
    ELSE BuiltInErr("UnsupportedInputToBuiltIn")

builtin_last(params) ==
    IF Len(params) # 1 THEN BuiltInErr("WrongNumberOfArguments")
    ELSE IF params[1].t = "Array"
         THEN IF Len(params[1].v) > 0 THEN Some(params[1].v[Len(params[1].v)])
              ELSE Some(Null)
    ELSE BuiltInErr("UnsupportedInputToBuiltIn")

builtin_rest(params) ==
    IF Len(params) # 1 THEN BuiltInErr("WrongNumberOfArguments")
    ELSE IF params[1].t = "Array"
         THEN IF Len(params[1].v) > 0 THEN Some(Array(Tail(params[1].v))) ELSE Some(Null)
    ELSE BuiltInErr("UnsupportedInputToBuiltIn")

builtin_push(params) ==
    IF Len(params) # 2 THEN BuiltInErr("WrongNumberOfArguments")
    ELSE IF params[1].t = "Array" THEN Some(Array(Append(params[1].v, params[2])))
    ELSE BuiltInErr("UnsupportedInputToBuiltIn")

builtin_puts(params) == Some(Null)

builtin_magic_number(params) == Some(Integer(42))

\* BuiltIn::func() applied: the built-in of enum value idx called on params
call_builtin(idx, params) ==
    CASE idx = 0 -> builtin_len(params)
      [] idx = 1 -> builtin_first(params)
      [] idx = 2 -> builtin_last(params)
      [] idx = 3 -> builtin_rest(params)
      [] idx = 4 -> builtin_push(params)
      [] idx = 5 -> builtin_puts(params)
      [] idx = 6 -> builtin_magic_number(params)

\* is_truthy taking the integer 0 for false as well
is_truthy_zero_is_false(obj) ==
    CASE obj.t = "Boolean" -> obj.v
      [] obj.t = "Null" -> FALSE
      [] obj.t = "Integer" -> obj.v # 0
      [] OTHER -> TRUE

is_truthy(obj) ==
    CASE obj.t = "Boolean" -> obj.v
      [] obj.t = "Null" -> FALSE
      [] OTHER -> TRUE

\* to_hashable_object succeeds
\* is_hashable accepting arrays as well
is_hashable_with_arrays(obj) == obj.t \in {"Boolean", "Str", "Integer", "Array"}

is_hashable(obj) == obj.t \in {"Boolean", "Str", "Integer"}

\* the HashableObject of a hashable obj: the variant with its content, a
\* Boolean's in b, an Integer's in i and a Str's in s
to_hashable_object(obj) ==
    [t |-> obj.t,
     b |-> IF obj.t = "Boolean" THEN obj.v ELSE FALSE,
     i |-> IF obj.t = "Integer" THEN obj.v ELSE 0,
     s |-> IF obj.t = "Str" THEN obj.v ELSE <<>>]

(***************************************************************************)
(* Virtual machine (vm.rs).  The machine is a record m; m.err is "none"    *)
(* while run has not returned, a VmError kind once a `?` has returned it,  *)
(* and "panic" when the process has aborted.  m.ret is the value the last  *)
(* pop returned.  stack and globals are kept as maps from the slots that   *)
(* have been written to their values; every other slot holds the Null it   *)
(* was created with.  m.build is the build profile: with "debug" an        *)
(* overflow of usize or u16 arithmetic panics, with "release" it wraps.    *)
(* Integer objects are carried without the i64 width: the programs run     *)
(* here keep every intermediate result far inside it.                      *)
(***************************************************************************)
STACK_SIZE == 2048
MAX_FRAMES == 1024
GLOBALS_SIZE == 65536
\* usize::MAX, the value 0 - 1 wraps to in a release build; it stands here as
\* the largest integer the model's arithmetic carries
USIZE_MAX == 2147483647

Frame_new(cl, base_pointer) == [cl |-> cl, ip |-> 0, bp |-> base_pointer]

Fail(m, e) == [m EXCEPT !.err = e]

current_frame(m) == m.frames[m.frames_index]

instructions(m) == current_frame(m).cl.compiled_function.instructions

\* ins[i] of the current frame (0-based)
ins_at(m, i) == instructions(m)[i + 1]

StackAt(m, i) == IF i \in DOMAIN m.stack THEN m.stack[i] ELSE Null

GlobalAt(m, i) == IF i \in DOMAIN m.globals THEN m.globals[i] ELSE Null

push_frame(m, frame) ==
    [m EXCEPT !.frames_index = @ + 1, !.frames = Append(@, frame)]

\* the machine after pop_frame; the frame it returns is current_frame of the
\* machine before the call
pop_frame(m) ==
    [m EXCEPT !.frames_index = @ - 1, !.frames = SubSeq(@, 1, Len(@) - 1)]

increment_ip(m, val) == [m EXCEPT !.frames[m.frames_index].ip = @ + val]

set_ip(m, val) == [m EXCEPT !.frames[m.frames_index].ip = val]

push(m, obj) ==
    IF m.err # "none" THEN m
    ELSE IF m.sp >= STACK_SIZE THEN Fail(m, "StackOverflow")
    ELSE [m EXCEPT !.stack = Insert(m.stack, m.sp, obj), !.sp = m.sp + 1]

pop(m) ==
    IF m.err # "none" THEN m
    ELSE IF m.sp = 0 THEN Fail(m, "StackUnderflow")
    ELSE IF m.sp - 1 >= STACK_SIZE THEN Fail(m, "panic")
    ELSE [m EXCEPT !.ret = Some(StackAt(m, m.sp - 1)), !.sp = m.sp - 1]

\* n successive pops; vals are the popped values, the deepest first
RECURSIVE pop_n(_, _, _)
pop_n(m, n, vals) ==
    IF m.err # "none" \/ n = 0 THEN [m |-> m, vals |-> vals]
    ELSE LET m1 == pop(m)
         IN  pop_n(m1, n - 1, IF m1.err = "none" THEN <<m1.ret.v>> \o vals ELSE vals)

\* last_top reading the slot below sp, the top of the stack
last_top_below(m) == StackAt(m, m.sp - 1)

last_top(m) == StackAt(m, m.sp)

\* frame.bp - 1 on usize
bp_minus_1(m, bp) ==
    IF bp > 0 THEN [m EXCEPT !.sp = bp - 1]
    ELSE IF m.build = "debug" THEN Fail(m, "panic")
    ELSE [m EXCEPT !.sp = USIZE_MAX]

\* call_closure comparing the argument count after the frame is pushed
call_closure_frame_first(m, num_args, closure) ==
    LET m1 == push_frame(m, Frame_new(closure, m.sp - num_args))
        m2 == [m1 EXCEPT !.sp = @ + closure.compiled_function.num_locals]
    IN  IF closure.compiled_function.num_parameters # num_args
        THEN Fail(m2, "WrongNumberOfArgs")
        ELSE m2

\* call_closure with the base pointer above the arguments
call_closure_bp_at_sp(m, num_args, closure) ==
    IF closure.compiled_function.num_parameters # num_args
    THEN Fail(m, "WrongNumberOfArgs")
    ELSE LET m1 == push_frame(m, Frame_new(closure, m.sp))
         IN  [m1 EXCEPT !.sp = @ + closure.compiled_function.num_locals]

call_closure(m, num_args, closure) ==
    IF closure.compiled_function.num_parameters # num_args
    THEN Fail(m, "WrongNumberOfArgs")
    ELSE LET m1 == push_frame(m, Frame_new(closure, m.sp - num_args))
         IN  [m1 EXCEPT !.sp = @ + closure.compiled_function.num_locals]

\* call_function answering UnknownError for a callee that is no function
call_function_unknown_callee(m, num_args) ==
    IF m.sp < 1 + num_args \/ m.sp - 1 - num_args >= STACK_SIZE THEN Fail(m, "panic")
    ELSE LET func == StackAt(m, m.sp - 1 - num_args)
         IN  CASE func.t = "Closure" -> call_closure(m, num_args, func)
               [] func.t = "BuiltIn" ->
                    LET p == pop_n(m, num_args, <<>>)
                        m1 == pop(p.m)
                        r == call_builtin(func.v, p.vals)
                    IN  IF m1.err # "none" THEN m1
                        ELSE IF r.ok THEN LET m2 == push(m1, r.v)
                                          IN  IF m2.err # "none" THEN m2
                                              ELSE increment_ip(m2, 1)
                        ELSE Fail(m1, "UnknownError")
               [] OTHER -> Fail(m, "UnknownError")

call_function(m, num_args) ==
    IF m.sp < 1 + num_args \/ m.sp - 1 - num_args >= STACK_SIZE THEN Fail(m, "panic")
    ELSE LET func == StackAt(m, m.sp - 1 - num_args)
         IN  CASE func.t = "Closure" -> call_closure(m, num_args, func)
               [] func.t = "BuiltIn" ->
                    LET p == pop_n(m, num_args, <<>>)
                        m1 == pop(p.m)
                        r == call_builtin(func.v, p.vals)
                    IN  IF m1.err # "none" THEN m1
                        ELSE IF r.ok THEN LET m2 == push(m1, r.v)
                                          IN  IF m2.err # "none" THEN m2
                                              ELSE increment_ip(m2, 1)
                        ELSE Fail(m1, "UnknownError")
               [] OTHER -> Fail(m, "CallingNonFunction")

push_closure(m, idx, num_free) ==
    IF idx >= Len(m.constants) THEN Fail(m, "panic")
    ELSE IF m.constants[idx + 1].t = "CompiledFunction"
         THEN LET p == pop_n(m, num_free, <<>>)
              IN  push(p.m, Closure(m.constants[idx + 1], p.vals))
    ELSE Fail(m, "UnknownError")

\* Rust's `/` on i64 truncates toward zero
trunc_div(a, b) ==
    CASE a >= 0 /\ b > 0 -> a \div b
      [] a < 0 /\ b < 0 -> (0 - a) \div (0 - b)
      [] a < 0 /\ b > 0 -> 0 - ((0 - a) \div b)
      [] a >= 0 /\ b < 0 -> 0 - (a \div (0 - b))

binary_integer_op(m, left, op, right) ==
    CASE op = "Add" -> push(m, Integer(left + right))
      [] op = "Sub" -> push(m, Integer(left - right))
      [] op = "Mul" -> push(m, Integer(left * right))
      [] op = "Div" -> IF right = 0 THEN Fail(m, "panic")
                       ELSE push(m, Integer(trunc_div(left, right)))
      [] OTHER -> Fail(m, "BadOpCode")

binary_string_op(m, left, op, right) ==
    IF op = "Add" THEN push(m, Str(left \o right)) ELSE Fail(m, "BadOpCode")

binary_op(m, op) ==
    LET m1 == pop(m)
        m2 == pop(m1)
        right == m1.ret.v
        left == m2.ret.v
    IN  IF m2.err # "none" THEN m2
        ELSE IF left.t = "Integer" /\ right.t = "Integer"
             THEN binary_integer_op(m2, left.v, op, right.v)
        ELSE IF left.t = "Str" /\ right.t = "Str"
             THEN binary_string_op(m2, left.v, op, right.v)
        ELSE Fail(m2, "UnsupportedOperands")

comparison_boolean_op(m, left, op, right) ==
    CASE op = "Equal" -> push(m, Boolean(left = right))
      [] op = "NotEqual" -> push(m, Boolean(left # right))
      [] OTHER -> Fail(m, "BadOpCode")

comparison_integer_op(m, left, op, right) ==
    CASE op = "Equal" -> push(m, Boolean(left = right))
      [] op = "NotEqual" -> push(m, Boolean(left # right))
      [] op = "GreaterThan" -> push(m, Boolean(left > right))
      [] OTHER -> Fail(m, "BadOpCode")

comparison_op(m, op) ==
    LET m1 == pop(m)
        m2 == pop(m1)
        right == m1.ret.v
        left == m2.ret.v
    IN  IF m2.err # "none" THEN m2
        ELSE IF left.t = "Boolean" /\ right.t = "Boolean"
             THEN comparison_boolean_op(m2, left.v, op, right.v)
        ELSE IF left.t = "Integer" /\ right.t = "Integer"
             THEN comparison_integer_op(m2, left.v, op, right.v)
        ELSE Fail(m2, "UnsupportedOperands")

\* index_expression with an index outside the array as an error
index_expression_checked_range(m, left, index) ==
    IF left.t = "Array" /\ index.t = "Integer"
    THEN IF index.v >= 0 /\ index.v < Len(left.v)
         THEN push(m, left.v[index.v + 1])
         ELSE Fail(m, "UnsupportedOperands")
    ELSE IF left.t = "Hash"
         THEN IF is_hashable(index)
              THEN push(m, IF to_hashable_object(index) \in DOMAIN left.v
                           THEN left.v[to_hashable_object(index)] ELSE Null)
              ELSE Fail(m, "UnsupportedOperands")
    ELSE Fail(m, "UnsupportedOperands")

index_expression(m, left, index) ==
    IF left.t = "Array" /\ index.t = "Integer"
    THEN IF index.v >= 0 /\ index.v < Len(left.v)
         THEN push(m, left.v[index.v + 1])
         ELSE push(m, Null)
    ELSE IF left.t = "Hash"
         THEN IF is_hashable(index)
              THEN push(m, IF to_hashable_object(index) \in DOMAIN left.v
                           THEN left.v[to_hashable_object(index)] ELSE Null)
              ELSE Fail(m, "UnsupportedOperands")
    ELSE Fail(m, "UnsupportedOperands")

\* the loop of the Hash arm popping the key before the value
RECURSIVE hash_pairs_key_first(_, _, _)
hash_pairs_key_first(m, n, hash_map) ==
    IF m.err # "none" \/ n = 0 THEN [m |-> m, map |-> hash_map]
    ELSE LET m1 == pop(m)
             m2 == pop(m1)
             key == m1.ret.v
             value == m2.ret.v
         IN  IF m2.err # "none" THEN [m |-> m2, map |-> hash_map]
             ELSE IF is_hashable(key)
                  THEN hash_pairs_key_first(m2, n - 1,
                                            Insert(hash_map, to_hashable_object(key), value))
             ELSE [m |-> Fail(m2, "UnsupportedOperands"), map |-> hash_map]

\* the pop-and-insert loop of the Hash arm, n pairs still to pop
RECURSIVE hash_pairs(_, _, _)
hash_pairs(m, n, hash_map) ==
    IF m.err # "none" \/ n = 0 THEN [m |-> m, map |-> hash_map]
    ELSE LET m1 == pop(m)
             m2 == pop(m1)
             value == m1.ret.v
             key == m2.ret.v
         IN  IF m2.err # "none" THEN [m |-> m2, map |-> hash_map]
             ELSE IF is_hashable(key)
                  THEN hash_pairs(m2, n - 1, Insert(hash_map, to_hashable_object(key), value))
             ELSE [m |-> Fail(m2, "UnsupportedOperands"), map |-> hash_map]

\* jump_pos - 1 on u16, then as usize
jump_to(m, jump_pos) ==
    IF jump_pos > 0 THEN set_ip(m, jump_pos - 1)
    ELSE IF m.build = "debug" THEN Fail(m, "panic")
    ELSE set_ip(m, U16 - 1)

\* the operand bytes ip+1 .. ip+n of the current instruction exist
has_operands(m, n) == current_frame(m).ip + n < Len(instructions(m))

\* self.increment_ip(1) at the end of a loop iteration that did not return
next_ip(m) == IF m.err # "none" THEN m ELSE increment_ip(m, 1)

(***************************************************************************)
(* The compile-and-run loop of start_with_compiler (repl.rs).  Every round *)
(* reads one line, compiles it with a new Compiler on the shared symbol    *)
(* table and constant pool, and runs the bytecode in a new Vm on the       *)
(* shared globals.  A line is one statement; binds is the name its let     *)
(* binds, reads the name it evaluates, literals its integer literals.      *)
(***************************************************************************)
MaxRounds == 3

ReplNames == {"a", "b"}

ReplLines == <<
    [src |-> ">> let a = 1;", program |-> <<Let("a", IntegerLiteral(1))>>,
     binds |-> Some("a"), reads |-> None, literals |-> {1}],
    [src |-> ">> let b = 2;", program |-> <<Let("b", IntegerLiteral(2))>>,
     binds |-> Some("b"), reads |-> None, literals |-> {2}],
    [src |-> ">> a", program |-> <<Expression(Ident("a"))>>,
     binds |-> None, reads |-> Some("a"), literals |-> {}],
    [src |-> ">> b", program |-> <<Expression(Ident("b"))>>,
     binds |-> None, reads |-> Some("b"), literals |-> {}],
    [src |-> ">> let a = a + 3;",
     program |-> <<Let("a", Infix(Ident("a"), "+", IntegerLiteral(3)))>>,
     binds |-> Some("a"), reads |-> None, literals |-> {3}],
    [src |-> ">> fn() { foo }",
     program |-> <<Expression(FunctionLiteral(<<>>, <<Expression(Ident("foo"))>>, None))>>,
     binds |-> None, reads |-> None, literals |-> {}]
>>

\* outside the loop
NoRepl == [round |-> 0, line |-> 0, constants |-> <<>>,
           sym |-> [n \in ReplNames |-> None], val |-> [n \in ReplNames |-> None]]

\* the loop after it compiled line k on table t into compiler state c: a let
\* that compiled has defined its name anew and has not stored yet
ReplCompiled(r, k, t, c) ==
    [round |-> r.round + 1, line |-> k, constants |-> c.constants,
     sym |-> [n \in ReplNames |->
                IF c.err = "none" /\ ReplLines[k].binds.ok /\ ReplLines[k].binds.v = n
                THEN Some(defined_symbol(t, n)) ELSE r.sym[n]],
     val |-> [n \in ReplNames |->
                IF c.err = "none" /\ ReplLines[k].binds.ok /\ ReplLines[k].binds.v = n
                THEN None ELSE r.val[n]]]

\* history: the instruction op, leaving machine m1, stored the value of the
\* line's let
ReplStored(op, m1) ==
    IF repl.round > 0 /\ op \in {"SetGlobal", "SetLocal"} /\ m1.err = "none"
       /\ ReplLines[repl.line].binds.ok
    THEN [repl EXCEPT !.val[ReplLines[repl.line].binds.v] = m1.ret]
    ELSE repl

(***************************************************************************)
(* Vm::run, one action per arm of its loop.  An action is one iteration:   *)
(* the fetch, the arm, and the increment_ip(1) that ends the iteration.    *)
(***************************************************************************)
VM == [constants |-> constants, globals |-> globals, stack |-> stack, sp |-> sp,
       frames |-> frames, frames_index |-> frames_index, err |-> err, ret |-> ret,
       build |-> build]

\* run has been entered and has not returned
Running == compile_err = "none" /\ err = "none" /\ ~result.ok

\* the loop condition holds and the byte at ip decodes to op
Fetch(op) ==
    /\ Running
    /\ current_frame(VM).ip < Len(instructions(VM))
    /\ try_from(ins_at(VM, current_frame(VM).ip)) = Some(op)

IP == current_frame(VM).ip

Operand8(i) == ins_at(VM, IP + i)

Operand16 == read_uint16(ins_at(VM, IP + 1), ins_at(VM, IP + 2))

NoCall == [nargs |-> 0, callee |-> Null, args |-> <<>>]

\* the machine becomes m1; the history variables record the instruction
Step(op, m1, call) ==
    /\ constants' = m1.constants
    /\ globals' = m1.globals
    /\ stack' = m1.stack
    /\ sp' = m1.sp
    /\ frames' = m1.frames
    /\ frames_index' = m1.frames_index
    /\ err' = m1.err
    /\ ret' = m1.ret
    /\ vlast' = [op |-> op, ip |-> IP, sp |-> sp, frames_index |-> frames_index,
                 nargs |-> call.nargs, callee |-> call.callee, args |-> call.args,
                 rec |-> IF Len(m1.frames) < Len(frames) /\ Len(calls) > 0
                         THEN Some(calls[Len(calls)]) ELSE None,
                 top |-> StackAt(VM, sp - 1), second |-> StackAt(VM, sp - 2)]
    /\ calls' = IF Len(m1.frames) > Len(frames)
                THEN Append(calls, [sp |-> sp, nargs |-> call.nargs, ip |-> IP,
                                     args |-> call.args,
                                     below |-> IF Len(calls) > 0 THEN EmptyMap
                                               ELSE [i \in 0..(sp - call.nargs - 2) |->
                                                        StackAt(VM, i)]])
                ELSE IF Len(m1.frames) < Len(frames) /\ Len(calls) > 0
                THEN SubSeq(calls, 1, Len(calls) - 1)
                ELSE calls
    /\ repl' = ReplStored(op, m1)
    /\ UNCHANGED <<input, build, compile_err, result, symvars, code>>

Run_GetFree ==
    /\ Fetch("GetFree")
    /\ Step("GetFree",
            IF ~has_operands(VM, 1) THEN Fail(VM, "panic")
            ELSE LET free_idx == Operand8(1)
                     m1 == increment_ip(VM, 1)
                     free == current_frame(m1).cl.free
                 IN  IF free_idx >= Len(free) THEN Fail(m1, "panic")
                     ELSE next_ip(push(m1, free[free_idx + 1])),
            NoCall)

\* the arm for OpCode::CurrentClosure, after the specification of the
\* instruction (vm.rs has no arm of that name)
Run_CurrentClosure ==
    /\ Fetch("CurrentClosure")
    /\ Step("CurrentClosure",
            next_ip(push(VM, current_frame(VM).cl)),
            NoCall)

Run_Closure ==
    /\ Fetch("Closure")
    /\ Step("Closure",
            IF ~has_operands(VM, 3) THEN Fail(VM, "panic")
            ELSE next_ip(push_closure(increment_ip(VM, 3), Operand16, Operand8(3))),
            NoCall)

Run_GetBuiltin ==
    /\ Fetch("GetBuiltin")
    /\ Step("GetBuiltin",
            IF ~has_operands(VM, 1) THEN Fail(VM, "panic")
            ELSE LET idx == Operand8(1)
                     m1 == increment_ip(VM, 1)
                 IN  IF idx >= Len(BuiltInAll) THEN Fail(m1, "UnknownError")
                     ELSE next_ip(push(m1, BuiltInObj(idx))),
            NoCall)

Run_Return ==
    /\ Fetch("Return")
    /\ Step("Return",
            LET frame == current_frame(VM)
                m1 == bp_minus_1(pop_frame(VM), frame.bp)
            IN  next_ip(push(m1, Null)),
            NoCall)

Run_ReturnValue ==
    /\ Fetch("ReturnValue")
    /\ Step("ReturnValue",
            LET m1 == pop(VM)
                frame == current_frame(m1)
                m2 == bp_minus_1(pop_frame(m1), frame.bp)
            IN  IF m1.err # "none" THEN m1
                ELSE next_ip(push(m2, m1.ret.v)),
            NoCall)

\* the arm ends with `continue`: no increment_ip(1) after call_function
Run_Call ==
    /\ Fetch("Call")
    /\ Step("Call",
            IF ~has_operands(VM, 1) THEN Fail(VM, "panic")
            ELSE call_function(increment_ip(VM, 1), Operand8(1)),
            IF has_operands(VM, 1) /\ sp >= 1 + Operand8(1)
            THEN [nargs |-> Operand8(1),
                  callee |-> StackAt(VM, sp - 1 - Operand8(1)),
                  args |-> [i \in 1..Operand8(1) |-> StackAt(VM, sp - Operand8(1) + i - 1)]]
            ELSE NoCall)

Run_Index ==
    /\ Fetch("Index")
    /\ Step("Index",
            LET m1 == pop(VM)
                m2 == pop(m1)
            IN  IF m2.err # "none" THEN m2
                ELSE next_ip(index_expression(m2, m2.ret.v, m1.ret.v)),
            NoCall)

Run_Hash ==
    /\ Fetch("Hash")
    /\ Step("Hash",
            IF ~has_operands(VM, 2) THEN Fail(VM, "panic")
            ELSE LET h == hash_pairs(increment_ip(VM, 2), Operand16 \div 2, EmptyMap)
                 IN  next_ip(push(h.m, Hash(h.map))),
            NoCall)

Run_Array ==
    /\ Fetch("Array")
    /\ Step("Array",
            IF ~has_operands(VM, 2) THEN Fail(VM, "panic")
            ELSE LET p == pop_n(increment_ip(VM, 2), Operand16, <<>>)
                 IN  next_ip(push(p.m, Array(p.vals))),
            NoCall)

Run_SetGlobal ==
    /\ Fetch("SetGlobal")
    /\ Step("SetGlobal",
            IF ~has_operands(VM, 2) THEN Fail(VM, "panic")
            ELSE LET m1 == pop(increment_ip(VM, 2))
                 IN  IF m1.err # "none" THEN m1
                     ELSE next_ip([m1 EXCEPT !.globals = Insert(@, Operand16, m1.ret.v)]),
            NoCall)

Run_GetGlobal ==
    /\ Fetch("GetGlobal")
    /\ Step("GetGlobal",
            IF ~has_operands(VM, 2) THEN Fail(VM, "panic")
            ELSE LET m1 == increment_ip(VM, 2)
                 IN  IF Operand16 >= GLOBALS_SIZE THEN Fail(m1, "UnknownError")
                     ELSE next_ip(push(m1, GlobalAt(m1, Operand16))),
            NoCall)

Run_SetLocal ==
    /\ Fetch("SetLocal")
    /\ Step("SetLocal",
            IF ~has_operands(VM, 1) THEN Fail(VM, "panic")
            ELSE LET m1 == pop(increment_ip(VM, 1))
                     idx == current_frame(m1).bp + Operand8(1)
                 IN  IF m1.err # "none" THEN m1
                     ELSE IF idx >= STACK_SIZE THEN Fail(m1, "panic")
                     ELSE next_ip([m1 EXCEPT !.stack = Insert(@, idx, m1.ret.v)]),
            NoCall)

Run_GetLocal ==
    /\ Fetch("GetLocal")
    /\ Step("GetLocal",
            IF ~has_operands(VM, 1) THEN Fail(VM, "panic")
            ELSE LET m1 == increment_ip(VM, 1)
                     idx == current_frame(m1).bp + Operand8(1)
                 IN  IF idx >= STACK_SIZE THEN Fail(m1, "panic")
                     ELSE next_ip(push(m1, StackAt(m1, idx))),
            NoCall)

Run_True ==
    /\ Fetch("True")
    /\ Step("True", next_ip(push(VM, Boolean(TRUE))), NoCall)

Run_False ==
    /\ Fetch("False")
    /\ Step("False", next_ip(push(VM, Boolean(FALSE))), NoCall)

Run_Null ==
    /\ Fetch("Null")
    /\ Step("Null", next_ip(push(VM, Null)), NoCall)

Run_Pop ==
    /\ Fetch("Pop")
    /\ Step("Pop", next_ip(pop(VM)), NoCall)

Run_Constant ==
    /\ Fetch("Constant")
    /\ Step("Constant",
            IF ~has_operands(VM, 2) THEN Fail(VM, "panic")
            ELSE LET m1 == increment_ip(VM, 2)
                 IN  IF Operand16 >= Len(m1.constants) THEN Fail(m1, "panic")
                     ELSE next_ip(push(m1, m1.constants[Operand16 + 1])),
            NoCall)

Run_Bang ==
    /\ Fetch("Bang")
    /\ Step("Bang",
            LET m1 == pop(VM)
            IN  IF m1.err # "none" THEN m1
                ELSE next_ip(push(m1, Boolean((m1.ret.v.t = "Boolean" /\ m1.ret.v.v = FALSE)
                                              \/ m1.ret.v.t = "Null"))),
            NoCall)

Run_BinaryOp ==
    \E op \in {"Add", "Sub", "Mul", "Div"} :
        /\ Fetch(op)
        /\ Step(op, next_ip(binary_op(VM, op)), NoCall)

Run_ComparisonOp ==
    \E op \in {"Equal", "NotEqual", "GreaterThan"} :
        /\ Fetch(op)
        /\ Step(op, next_ip(comparison_op(VM, op)), NoCall)

Run_Minus ==
    /\ Fetch("Minus")
    /\ Step("Minus",
            LET m1 == pop(VM)
            IN  IF m1.err # "none" THEN m1
                ELSE IF m1.ret.v.t = "Integer"
                     THEN next_ip(push(m1, Integer(0 - m1.ret.v.v)))
                ELSE Fail(m1, "UnsupportedOperands"),
            NoCall)

Run_Jump ==
    /\ Fetch("Jump")
    /\ Step("Jump",
            IF ~has_operands(VM, 2) THEN Fail(VM, "panic")
            ELSE next_ip(jump_to(VM, Operand16)),
            NoCall)

Run_JumpNotTruthy ==
    /\ Fetch("JumpNotTruthy")
    /\ Step("JumpNotTruthy",
            IF ~has_operands(VM, 2) THEN Fail(VM, "panic")
            ELSE LET m1 == pop(increment_ip(VM, 2))
                 IN  IF m1.err # "none" THEN m1
                     ELSE IF ~is_truthy(m1.ret.v) THEN next_ip(jump_to(m1, Operand16))
                     ELSE next_ip(m1),
            NoCall)

\* the byte at ip is no opcode: run returns BadOpCode
Run_BadOpCode ==
    /\ Running
    /\ current_frame(VM).ip < Len(instructions(VM))
    /\ ~try_from(ins_at(VM, current_frame(VM).ip)).ok
    /\ Step("BadOpCode", Fail(VM, "BadOpCode"), NoCall)

\* the loop condition fails: run returns the object at stack[sp]
Run_Finish ==
    /\ Running
    /\ current_frame(VM).ip >= Len(instructions(VM))
    /\ IF sp >= STACK_SIZE
       THEN err' = "panic" /\ UNCHANGED result
       ELSE result' = Some(last_top(VM)) /\ UNCHANGED err
    /\ vlast' = [op |-> "Finish", ip |-> IP, sp |-> sp, frames_index |-> frames_index,
                 nargs |-> 0, callee |-> Null, args |-> <<>>, rec |-> None,
                 top |-> StackAt(VM, sp - 1), second |-> StackAt(VM, sp - 2)]
    /\ UNCHANGED <<input, build, compile_err, constants, globals, stack, sp, frames,
                   frames_index, ret, calls, symvars, repl, code>>

(***************************************************************************)
(* The programs run: the parsed form of the source text in src.  A         *)
(* function literal bound by a let statement carries the name it is bound  *)
(* to (the third field of Expression::FunctionLiteral).                    *)
(***************************************************************************)
Fn(parameters, body) == FunctionLiteral(parameters, body, None)

LetFn(name, parameters, body) == Let(name, FunctionLiteral(parameters, body, Some(name)))

CountDown ==
    LetFn("countDown", <<"x">>,
          <<Expression(If(Infix(Ident("x"), "==", IntegerLiteral(0)),
                          <<Return(IntegerLiteral(0))>>,
                          Some(<<Expression(Call(Ident("countDown"),
                                                 <<Infix(Ident("x"), "-", IntegerLiteral(1))>>))>>)))>>)

Programs == <<
    [src |-> "", program |-> <<>>],
    [src |-> "1 + 2", program |-> <<Expression(Infix(IntegerLiteral(1), "+", IntegerLiteral(2)))>>],
    [src |-> "let one = 1; let two = one + one; one + two",
     program |-> <<Let("one", IntegerLiteral(1)),
                   Let("two", Infix(Ident("one"), "+", Ident("one"))),
                   Expression(Infix(Ident("one"), "+", Ident("two")))>>],
    [src |-> "let x = 5;", program |-> <<Let("x", IntegerLiteral(5))>>],
    [src |-> "if (1 > 2) { 10 }",
     program |-> <<Expression(If(Infix(IntegerLiteral(1), ">", IntegerLiteral(2)), <<Expression(IntegerLiteral(10))>>, None))>>],
    [src |-> "if (1 < 2) { 10 } else { 20 }",
     program |-> <<Expression(If(Infix(IntegerLiteral(1), "<", IntegerLiteral(2)), <<Expression(IntegerLiteral(10))>>,
                                 Some(<<Expression(IntegerLiteral(20))>>)))>>],
    [src |-> "!(-(6 / 2) == 1 * 2 - 5)",
     program |-> <<Expression(Prefix("!",
                      Infix(Prefix("-", Infix(IntegerLiteral(6), "/", IntegerLiteral(2))), "==",
                            Infix(Infix(IntegerLiteral(1), "*", IntegerLiteral(2)), "-", IntegerLiteral(5)))))>>],
    [src |-> "(true != false) == true",
     program |-> <<Expression(Infix(Infix(BooleanLiteral(TRUE), "!=", BooleanLiteral(FALSE)),
                                    "==", BooleanLiteral(TRUE)))>>],
    [src |-> "\"mon\" + \"key\"",
     program |-> <<Expression(Infix(StringLiteral(<<"m", "o", "n">>), "+",
                                    StringLiteral(<<"k", "e", "y">>)))>>],
    [src |-> "[1, 2 * 2, 3][1]",
     program |-> <<Expression(Index(ArrayLiteral(<<IntegerLiteral(1), Infix(IntegerLiteral(2), "*", IntegerLiteral(2)), IntegerLiteral(3)>>),
                                    IntegerLiteral(1)))>>],
    [src |-> "{1: 2, 3: 4}[3]",
     program |-> <<Expression(Index(HashLiteral(<<<<IntegerLiteral(1), IntegerLiteral(2)>>, <<IntegerLiteral(3), IntegerLiteral(4)>>>>),
                                    IntegerLiteral(3)))>>],
    [src |-> "len(\"four\")",
     program |-> <<Expression(Call(Ident("len"), <<StringLiteral(<<"f", "o", "u", "r">>)>>))>>],
    [src |-> "first(rest(push([1, 2], 3)))",
     program |-> <<Expression(Call(Ident("first"),
                      <<Call(Ident("rest"),
                             <<Call(Ident("push"),
                                    <<ArrayLiteral(<<IntegerLiteral(1), IntegerLiteral(2)>>), IntegerLiteral(3)>>)>>)>>))>>],
    [src |-> "let fivePlusTen = fn() { 5 + 10 }; fivePlusTen();",
     program |-> <<LetFn("fivePlusTen", <<>>, <<Expression(Infix(IntegerLiteral(5), "+", IntegerLiteral(10)))>>),
                   Expression(Call(Ident("fivePlusTen"), <<>>))>>],
    [src |-> "let noReturn = fn() { }; noReturn();",
     program |-> <<LetFn("noReturn", <<>>, <<>>),
                   Expression(Call(Ident("noReturn"), <<>>))>>],
    [src |-> "let sum = fn(a, b) { let c = a + b; c; }; sum(1, 2) + sum(3, 4);",
     program |-> <<LetFn("sum", <<"a", "b">>,
                         <<Let("c", Infix(Ident("a"), "+", Ident("b"))),
                           Expression(Ident("c"))>>),
                   Expression(Infix(Call(Ident("sum"), <<IntegerLiteral(1), IntegerLiteral(2)>>), "+",
                                    Call(Ident("sum"), <<IntegerLiteral(3), IntegerLiteral(4)>>)))>>],
    [src |-> "let newClosure = fn(a) { fn() { a; }; }; let closure = newClosure(99); closure();",
     program |-> <<LetFn("newClosure", <<"a">>,
                         <<Expression(Fn(<<>>, <<Expression(Ident("a"))>>))>>),
                   Let("closure", Call(Ident("newClosure"), <<IntegerLiteral(99)>>)),
                   Expression(Call(Ident("closure"), <<>>))>>],
    [src |-> "let newAdder = fn(a, b) { fn(c) { a + b + c }; }; let adder = newAdder(1, 2); adder(8);",
     program |-> <<LetFn("newAdder", <<"a", "b">>,
                         <<Expression(Fn(<<"c">>,
                              <<Expression(Infix(Infix(Ident("a"), "+", Ident("b")), "+",
                                                 Ident("c")))>>))>>),
                   Let("adder", Call(Ident("newAdder"), <<IntegerLiteral(1), IntegerLiteral(2)>>)),
                   Expression(Call(Ident("adder"), <<IntegerLiteral(8)>>))>>],
    [src |-> "let a = 1; let newAdderOuter = fn(b) { fn(c) { fn(d) { a + b + c + d }; }; }; let newAdderInner = newAdderOuter(2); let adder = newAdderInner(3); adder(8);",
     program |-> <<Let("a", IntegerLiteral(1)),
                   LetFn("newAdderOuter", <<"b">>,
                         <<Expression(Fn(<<"c">>,
                              <<Expression(Fn(<<"d">>,
                                   <<Expression(Infix(Infix(Infix(Ident("a"), "+", Ident("b")), "+",
                                                            Ident("c")), "+", Ident("d")))>>))>>))>>),
                   Let("newAdderInner", Call(Ident("newAdderOuter"), <<IntegerLiteral(2)>>)),
                   Let("adder", Call(Ident("newAdderInner"), <<IntegerLiteral(3)>>)),
                   Expression(Call(Ident("adder"), <<IntegerLiteral(8)>>))>>],
    [src |-> "let countDown = fn(x) { if (x == 0) { return 0; } else { countDown(x - 1); } }; countDown(1);",
     program |-> <<CountDown, Expression(Call(Ident("countDown"), <<IntegerLiteral(1)>>))>>],
    [src |-> "let countDown = fn(x) { if (x == 0) { return 0; } else { countDown(x - 1); } }; let wrapper = fn() { countDown(1); }; wrapper();",
     program |-> <<CountDown,
                   LetFn("wrapper", <<>>, <<Expression(Call(Ident("countDown"), <<IntegerLiteral(1)>>))>>),
                   Expression(Call(Ident("wrapper"), <<>>))>>],
    [src |-> "let wrapper = fn() { let countDown = fn(x) { if (x == 0) { return 0; } else { countDown(x - 1); } }; countDown(1); }; wrapper();",
     program |-> <<LetFn("wrapper", <<>>,
                         <<CountDown, Expression(Call(Ident("countDown"), <<IntegerLiteral(1)>>))>>),
                   Expression(Call(Ident("wrapper"), <<>>))>>],
    [src |-> "let f = fn() { f(); }; f();",
     program |-> <<LetFn("f", <<>>, <<Expression(Call(Ident("f"), <<>>))>>),
                   Expression(Call(Ident("f"), <<>>))>>],
    [src |-> "return 5;", program |-> <<Return(IntegerLiteral(5))>>],
    [src |-> "let f = fn(x, y) { f(x, y); }; f(1, 2);",
     program |-> <<LetFn("f", <<"x", "y">>,
                         <<Expression(Call(Ident("f"), <<Ident("x"), Ident("y")>>))>>),
                   Expression(Call(Ident("f"), <<IntegerLiteral(1), IntegerLiteral(2)>>))>>]
>>

(***************************************************************************)
(* Programs built from a list of operand expressions: every operator on    *)
(* every pair of operands, every prefix operator and if on every operand,  *)
(* index expressions, hash literals, and calls.                            *)
(***************************************************************************)
\* the if without alternative whose condition is false: evaluates to Null
NullExpression == If(BooleanLiteral(FALSE), <<Expression(IntegerLiteral(1))>>, None)

Operands == <<
    [src |-> "1", expr |-> IntegerLiteral(1)],
    [src |-> "2", expr |-> IntegerLiteral(2)],
    [src |-> "true", expr |-> BooleanLiteral(TRUE)],
    [src |-> "false", expr |-> BooleanLiteral(FALSE)],
    [src |-> "\"a\"", expr |-> StringLiteral(<<"a">>)],
    [src |-> "\"b\"", expr |-> StringLiteral(<<"b">>)],
    [src |-> "[1]", expr |-> ArrayLiteral(<<IntegerLiteral(1)>>)],
    [src |-> "(if (false) { 1 })", expr |-> NullExpression],
    [src |-> "0", expr |-> IntegerLiteral(0)],
    [src |-> "\"\"", expr |-> StringLiteral(<<>>)],
    [src |-> "[]", expr |-> ArrayLiteral(<<>>)],
    [src |-> "{}", expr |-> HashLiteral(<<>>)],
    [src |-> "fn() { 1 }", expr |-> Fn(<<>>, <<Expression(IntegerLiteral(1))>>)],
    [src |-> "len", expr |-> Ident("len")]
>>

\* the operands an infix operator is applied to: the first NumInfixOperands
NumInfixOperands == 8

InfixTokens == <<"+", "-", "*", "/", "==", "!=", ">", "<">>

\* l op r, for every pair of the first NumInfixOperands operands and every operator
InfixPrograms ==
    [k \in 1..(NumInfixOperands * Len(InfixTokens) * NumInfixOperands) |->
        LET l == Operands[((k - 1) \div (Len(InfixTokens) * NumInfixOperands)) + 1]
            op == InfixTokens[(((k - 1) \div NumInfixOperands) % Len(InfixTokens)) + 1]
            r == Operands[((k - 1) % NumInfixOperands) + 1]
        IN  [src |-> l.src \o " " \o op \o " " \o r.src,
             program |-> <<Expression(Infix(l.expr, op, r.expr))>>]]

\* !v, -v and if (v) { 1 } else { 2 }, for every operand
PrefixPrograms ==
    [k \in 1..Len(Operands) |->
        [src |-> "!" \o Operands[k].src,
         program |-> <<Expression(Prefix("!", Operands[k].expr))>>]]
    \o [k \in 1..Len(Operands) |->
        [src |-> "-" \o Operands[k].src,
         program |-> <<Expression(Prefix("-", Operands[k].expr))>>]]
    \o [k \in 1..Len(Operands) |->
        [src |-> "if (" \o Operands[k].src \o ") { 1 } else { 2 }",
         program |-> <<Expression(If(Operands[k].expr, <<Expression(IntegerLiteral(1))>>,
                                     Some(<<Expression(IntegerLiteral(2))>>)))>>]]

\* { k: 1 }, for every operand
HashKeyPrograms ==
    [k \in 1..Len(Operands) |->
        [src |-> "{" \o Operands[k].src \o ": 1}",
         program |-> <<Expression(HashLiteral(<<<<Operands[k].expr, IntegerLiteral(1)>>>>))>>]]

Indexed == <<
    [src |-> "[1, 2, 3]",
     expr |-> ArrayLiteral(<<IntegerLiteral(1), IntegerLiteral(2), IntegerLiteral(3)>>)],
    [src |-> "[]", expr |-> ArrayLiteral(<<>>)],
    [src |-> "{1: 2, \"a\": 3, true: 4}",
     expr |-> HashLiteral(<<<<IntegerLiteral(1), IntegerLiteral(2)>>,
                            <<StringLiteral(<<"a">>), IntegerLiteral(3)>>,
                            <<BooleanLiteral(TRUE), IntegerLiteral(4)>>>>)],
    [src |-> "{}", expr |-> HashLiteral(<<>>)],
    [src |-> "1", expr |-> IntegerLiteral(1)],
    [src |-> "\"a\"", expr |-> StringLiteral(<<"a">>)]
>>

Indices == <<
    [src |-> "0", expr |-> IntegerLiteral(0)],
    [src |-> "1", expr |-> IntegerLiteral(1)],
    [src |-> "2", expr |-> IntegerLiteral(2)],
    [src |-> "3", expr |-> IntegerLiteral(3)],
    [src |-> "-1", expr |-> Prefix("-", IntegerLiteral(1))],
    [src |-> "\"a\"", expr |-> StringLiteral(<<"a">>)],
    [src |-> "\"b\"", expr |-> StringLiteral(<<"b">>)],
    [src |-> "true", expr |-> BooleanLiteral(TRUE)],
    [src |-> "false", expr |-> BooleanLiteral(FALSE)],
    [src |-> "[1]", expr |-> ArrayLiteral(<<IntegerLiteral(1)>>)],
    [src |-> "(if (false) { 1 })", expr |-> NullExpression],
    [src |-> "{}", expr |-> HashLiteral(<<>>)]
>>

\* left[index], for every indexed value and every index
IndexPrograms ==
    [k \in 1..(Len(Indexed) * Len(Indices)) |->
        LET l == Indexed[((k - 1) \div Len(Indices)) + 1]
            i == Indices[((k - 1) % Len(Indices)) + 1]
        IN  [src |-> l.src \o "[" \o i.src \o "]",
             program |-> <<Expression(Index(l.expr, i.expr))>>]]

ArgumentLists == <<
    [src |-> "", args |-> <<>>],
    [src |-> "1", args |-> <<IntegerLiteral(1)>>],
    [src |-> "\"ab\"", args |-> <<StringLiteral(<<"a", "b">>)>>],
    [src |-> "[1, 2]", args |-> <<ArrayLiteral(<<IntegerLiteral(1), IntegerLiteral(2)>>)>>],
    [src |-> "[]", args |-> <<ArrayLiteral(<<>>)>>],
    [src |-> "[1, 2], 3",
     args |-> <<ArrayLiteral(<<IntegerLiteral(1), IntegerLiteral(2)>>), IntegerLiteral(3)>>],
    [src |-> "1, 2", args |-> <<IntegerLiteral(1), IntegerLiteral(2)>>],
    [src |-> "1, 2, 3", args |-> <<IntegerLiteral(1), IntegerLiteral(2), IntegerLiteral(3)>>]
>>

\* the functions called: the built-ins that can fail, and closures of 0, 1
\* and 2 parameters (prelude is the let statement that binds the closure)
Callees == <<
    [src |-> "len", prelude |-> <<>>],
    [src |-> "first", prelude |-> <<>>],
    [src |-> "last", prelude |-> <<>>],
    [src |-> "rest", prelude |-> <<>>],
    [src |-> "push", prelude |-> <<>>],
    [src |-> "let g = fn() { 1 }; g",
     prelude |-> <<LetFn("g", <<>>, <<Expression(IntegerLiteral(1))>>)>>],
    [src |-> "let f = fn(a) { a }; f",
     prelude |-> <<LetFn("f", <<"a">>, <<Expression(Ident("a"))>>)>>],
    [src |-> "let h = fn(a, b) { a + b }; h",
     prelude |-> <<LetFn("h", <<"a", "b">>, <<Expression(Infix(Ident("a"), "+", Ident("b")))>>)>>]
>>

\* the name the call goes through
CalleeName(k) == <<"len", "first", "last", "rest", "push", "g", "f", "h">>[k]

\* callee(args), for every callee and every argument list
CallPrograms ==
    [k \in 1..(Len(Callees) * Len(ArgumentLists)) |->
        LET ci == ((k - 1) \div Len(ArgumentLists)) + 1
            a == ArgumentLists[((k - 1) % Len(ArgumentLists)) + 1]
        IN  [src |-> Callees[ci].src \o "(" \o a.src \o ")",
             program |-> Callees[ci].prelude
                         \o <<Expression(Call(Ident(CalleeName(ci)), a.args))>>]]

\* v() and v(1), for every operand
OperandCallPrograms ==
    [k \in 1..Len(Operands) |->
        [src |-> Operands[k].src \o "()",
         program |-> <<Expression(Call(Operands[k].expr, <<>>))>>]]
    \o [k \in 1..Len(Operands) |->
        [src |-> Operands[k].src \o "(1)",
         program |-> <<Expression(Call(Operands[k].expr, <<IntegerLiteral(1)>>))>>]]

\* programs that use a name nothing defines
UnboundPrograms == <<
    [src |-> "foo", program |-> <<Expression(Ident("foo"))>>],
    [src |-> "1; foo", program |-> <<Expression(IntegerLiteral(1)), Expression(Ident("foo"))>>],
    [src |-> "let a = 1; a + foo",
     program |-> <<Let("a", IntegerLiteral(1)), Expression(Infix(Ident("a"), "+", Ident("foo")))>>],
    [src |-> "let x = foo;", program |-> <<Let("x", Ident("foo"))>>],
    [src |-> "let f = fn(a) { a + foo }; f(1)",
     program |-> <<LetFn("f", <<"a">>, <<Expression(Infix(Ident("a"), "+", Ident("foo")))>>),
                   Expression(Call(Ident("f"), <<IntegerLiteral(1)>>))>>],
    [src |-> "let f = fn(a) { a }; a",
     program |-> <<LetFn("f", <<"a">>, <<Expression(Ident("a"))>>), Expression(Ident("a"))>>],
    [src |-> "foo(1)", program |-> <<Expression(Call(Ident("foo"), <<IntegerLiteral(1)>>))>>],
    [src |-> "len(foo)", program |-> <<Expression(Call(Ident("len"), <<Ident("foo")>>))>>],
    [src |-> "[1, foo]", program |-> <<Expression(ArrayLiteral(<<IntegerLiteral(1), Ident("foo")>>))>>],
    [src |-> "if (true) { foo }",
     program |-> <<Expression(If(BooleanLiteral(TRUE), <<Expression(Ident("foo"))>>, None))>>],
    [src |-> "return foo;", program |-> <<Return(Ident("foo"))>>]
>>

\* the conditions of the if-expressions below: true, false and Null
Conditions == <<Operands[3], Operands[4], Operands[8]>>

\* the blocks of the if-expressions below; value is the value of the block's
\* last expression statement, None when the block has none
Blocks == <<
    [src |-> "{ 10 }", block |-> <<Expression(IntegerLiteral(10))>>,
     value |-> Some(Integer(10))],
    [src |-> "{ }", block |-> <<>>, value |-> None],
    [src |-> "{ let z = 5; }", block |-> <<Let("z", IntegerLiteral(5))>>, value |-> None],
    [src |-> "{ 1; 20 }",
     block |-> <<Expression(IntegerLiteral(1)), Expression(IntegerLiteral(20))>>,
     value |-> Some(Integer(20))],
    [src |-> "{ if (false) { 30 } }",
     block |-> <<Expression(If(BooleanLiteral(FALSE), <<Expression(IntegerLiteral(30))>>,
                               None))>>,
     value |-> Some(Null)]
>>

\* the places an if-expression x stands in: an expression statement, the
\* value of a let, the body of a function that is called
Places == <<"statement", "let", "function">>

IfProgram(cond, cons, alt, place) ==
    LET x == If(cond.expr, cons.block, IF alt.ok THEN Some(alt.v.block) ELSE None)
        text == "if (" \o cond.src \o ") " \o cons.src
                \o (IF alt.ok THEN " else " \o alt.v.src ELSE "")
    IN  [src |-> CASE place = "statement" -> text
                   [] place = "let" -> "let r = " \o text \o "; r"
                   [] place = "function" -> "fn() { " \o text \o " }()",
         program |-> CASE place = "statement" -> <<Expression(x)>>
                       [] place = "let" -> <<Let("r", x), Expression(Ident("r"))>>
                       [] place = "function" ->
                            <<Expression(Call(Fn(<<>>, <<Expression(x)>>), <<>>))>>,
         cond |-> cond, cons |-> cons, alt |-> alt, place |-> place]

\* if (c) cons and if (c) cons else alt, for every condition, every pair of
\* blocks and every place
IfPrograms ==
    [k \in 1..(Len(Conditions) * Len(Blocks) * (Len(Blocks) + 1) * Len(Places)) |->
        LET c == ((k - 1) \div (Len(Blocks) * (Len(Blocks) + 1) * Len(Places))) + 1
            b == (((k - 1) \div ((Len(Blocks) + 1) * Len(Places))) % Len(Blocks)) + 1
            a == ((k - 1) \div Len(Places)) % (Len(Blocks) + 1)
            p == ((k - 1) % Len(Places)) + 1
        IN  IfProgram(Conditions[c], Blocks[b],
                      IF a = 0 THEN None ELSE Some(Blocks[a]), Places[p])]

\* function literals called where they stand: bodies that end in a let, in
\* a return, in an expression; parameters, lets and a nested function
FunctionPrograms == <<
    [src |-> "fn() { let a = 1; }()",
     program |-> <<Expression(Call(Fn(<<>>, <<Let("a", IntegerLiteral(1))>>), <<>>))>>],
    [src |-> "fn() { return 1; }()",
     program |-> <<Expression(Call(Fn(<<>>, <<Return(IntegerLiteral(1))>>), <<>>))>>],
    [src |-> "fn(a, b, c) { c - a - b }(1, 2, 4)",
     program |-> <<Expression(Call(
                       Fn(<<"a", "b", "c">>,
                          <<Expression(Infix(Infix(Ident("c"), "-", Ident("a")), "-",
                                             Ident("b")))>>),
                       <<IntegerLiteral(1), IntegerLiteral(2), IntegerLiteral(4)>>))>>],
    [src |-> "fn(a, b) { let c = 3; let c = 4; if (a) { let d = 5; d }; fn(e) { let g = 6; e }; b + c }(1, 2)",
     program |-> <<Expression(Call(
                       Fn(<<"a", "b">>,
                          <<Let("c", IntegerLiteral(3)),
                            Let("c", IntegerLiteral(4)),
                            Expression(If(Ident("a"),
                                          <<Let("d", IntegerLiteral(5)), Expression(Ident("d"))>>,
                                          None)),
                            Expression(Fn(<<"e">>, <<Let("g", IntegerLiteral(6)),
                                                     Expression(Ident("e"))>>)),
                            Expression(Infix(Ident("b"), "+", Ident("c")))>>),
                       <<IntegerLiteral(1), IntegerLiteral(2)>>))>>],
    [src |-> "fn(a) { if (true) { }; if (true) { }; 5; a }(7)",
     program |-> <<Expression(Call(
                       Fn(<<"a">>,
                          <<Expression(If(BooleanLiteral(TRUE), <<>>, None)),
                            Expression(If(BooleanLiteral(TRUE), <<>>, None)),
                            Expression(IntegerLiteral(5)),
                            Expression(Ident("a"))>>),
                       <<IntegerLiteral(7)>>))>>]
>>

\* the programs of closure_test (compiler_test.rs), with the constants and
\* the instructions the test expects of the compiler
ClosurePrograms == <<
    [src |-> "fn(a) { fn(b) { a + b } }",
     program |-> <<Expression(Fn(<<"a">>,
                       <<Expression(Fn(<<"b">>,
                             <<Expression(Infix(Ident("a"), "+", Ident("b")))>>))>>))>>,
     expected_constants |-> <<
         CompiledFunction(make_u8("GetFree", 0) \o make_u8("GetLocal", 0) \o make("Add")
                          \o make("ReturnValue"), 1, 1),
         CompiledFunction(make_u8("GetLocal", 0) \o make_u16_u8("Closure", 0, 1)
                          \o make("ReturnValue"), 1, 1)>>,
     expected_instructions |-> make_u16_u8("Closure", 1, 0) \o make("Pop")],
    [src |-> "let global = 55; fn() { let a = 66; fn() { let b = 77; fn() { let c = 88; global + a + b + c; } } }",
     program |-> <<Let("global", IntegerLiteral(55)),
                   Expression(Fn(<<>>,
                       <<Let("a", IntegerLiteral(66)),
                         Expression(Fn(<<>>,
                             <<Let("b", IntegerLiteral(77)),
                               Expression(Fn(<<>>,
                                   <<Let("c", IntegerLiteral(88)),
                                     Expression(Infix(Infix(Infix(Ident("global"), "+",
                                                                  Ident("a")),
                                                            "+", Ident("b")),
                                                      "+", Ident("c")))>>))>>))>>))>>,
     expected_constants |-> <<
         Integer(55), Integer(66), Integer(77), Integer(88),
         CompiledFunction(make_u16("Constant", 3) \o make_u8("SetLocal", 0)
                          \o make_u16("GetGlobal", 0) \o make_u8("GetFree", 0)
                          \o make("Add") \o make_u8("GetFree", 1) \o make("Add")
                          \o make_u8("GetLocal", 0) \o make("Add")
                          \o make("ReturnValue"), 1, 0),
         CompiledFunction(make_u16("Constant", 2) \o make_u8("SetLocal", 0)
                          \o make_u8("GetFree", 0) \o make_u8("GetLocal", 0)
                          \o make_u16_u8("Closure", 4, 2) \o make("ReturnValue"), 1, 0),
         CompiledFunction(make_u16("Constant", 1) \o make_u8("SetLocal", 0)
                          \o make_u8("GetLocal", 0) \o make_u16_u8("Closure", 5, 1)
                          \o make("ReturnValue"), 1, 0)>>,
     expected_instructions |-> make_u16("Constant", 0) \o make_u16("SetGlobal", 0)
                               \o make_u16_u8("Closure", 6, 0) \o make("Pop")]
>>

\* the longest array and hash literal of the families below
MaxLiteral == 2

\* the expressions the literals below are built of, each with its value;
\* 2 and 1 + 1 are different expressions of the same value
Atoms == <<
    [src |-> "1", expr |-> IntegerLiteral(1), obj |-> Integer(1)],
    [src |-> "2", expr |-> IntegerLiteral(2), obj |-> Integer(2)],
    [src |-> "\"a\"", expr |-> StringLiteral(<<"a">>), obj |-> Str(<<"a">>)],
    [src |-> "1 + 1", expr |-> Infix(IntegerLiteral(1), "+", IntegerLiteral(1)),
     obj |-> Integer(2)]
>>

\* the number of sequences of fewer than n atoms, n >= 1
AtomSeqsBelow(n) == ((Len(Atoms) ^ n) - Len(Atoms)) \div (Len(Atoms) - 1)

\* the sequences of 1 to MaxLiteral atoms, as sequences of indices of Atoms:
\* the shorter first, those of one length counted in base Len(Atoms)
AtomSeqList ==
    [k \in 1..AtomSeqsBelow(MaxLiteral + 1) |->
        LET n == CHOOSE m \in 1..MaxLiteral : AtomSeqsBelow(m) < k /\ k <= AtomSeqsBelow(m + 1)
            j == k - AtomSeqsBelow(n) - 1
        IN  [i \in 1..n |-> ((j \div (Len(Atoms) ^ (i - 1))) % Len(Atoms)) + 1]]

\* the texts of a sequence joined with ", "
RECURSIVE Commas(_)
Commas(texts) ==
    IF Len(texts) = 0 THEN ""
    ELSE IF Len(texts) = 1 THEN texts[1]
    ELSE texts[1] \o ", " \o Commas(Tail(texts))

\* {k1: 10, k2: 20, ..}, for every sequence of atoms as keys; the value of
\* the i-th pair is 10 * i
HashPrograms ==
    [n \in 1..Len(AtomSeqList) |->
        LET ks == AtomSeqList[n]
        IN  [src |-> "{" \o Commas([i \in 1..Len(ks) |->
                                        Atoms[ks[i]].src \o ": " \o ToString(10 * i)])
                     \o "}",
             program |-> <<Expression(HashLiteral(
                               [i \in 1..Len(ks) |->
                                   <<Atoms[ks[i]].expr, IntegerLiteral(10 * i)>>]))>>,
             keys |-> [i \in 1..Len(ks) |-> Atoms[ks[i]].obj],
             values |-> [i \in 1..Len(ks) |-> Integer(10 * i)]]]

\* [e1, e2, ..], for every sequence of atoms
ArrayPrograms ==
    [n \in 1..Len(AtomSeqList) |->
        LET es == AtomSeqList[n]
        IN  [src |-> "[" \o Commas([i \in 1..Len(es) |-> Atoms[es[i]].src]) \o "]",
             program |-> <<Expression(ArrayLiteral(
                               [i \in 1..Len(es) |-> Atoms[es[i]].expr]))>>,
             values |-> [i \in 1..Len(es) |-> Atoms[es[i]].obj]]]

\* calls made while the caller holds values on the stack below the callee
CallerSlotPrograms == <<
    [src |-> "1 + fn(a) { let b = a; b }(2)",
     program |-> <<Expression(Infix(IntegerLiteral(1), "+",
                       Call(Fn(<<"a">>, <<Let("b", Ident("a")), Expression(Ident("b"))>>),
                            <<IntegerLiteral(2)>>)))>>],
    [src |-> "[1, 2, fn(a, b) { let c = a + b; c }(3, 4)]",
     program |-> <<Expression(ArrayLiteral(<<IntegerLiteral(1), IntegerLiteral(2),
                       Call(Fn(<<"a", "b">>,
                               <<Let("c", Infix(Ident("a"), "+", Ident("b"))),
                                 Expression(Ident("c"))>>),
                            <<IntegerLiteral(3), IntegerLiteral(4)>>)>>))>>],
    [src |-> "1 + fn() { if (true) { }; if (true) { }; 5 }()",
     program |-> <<Expression(Infix(IntegerLiteral(1), "+",
                       Call(Fn(<<>>,
                               <<Expression(If(BooleanLiteral(TRUE), <<>>, None)),
                                 Expression(If(BooleanLiteral(TRUE), <<>>, None)),
                                 Expression(IntegerLiteral(5))>>),
                            <<>>)))>>]
>>

\* divisions, by zero and not
DivisionPrograms == <<
    [src |-> "6 / 2",
     program |-> <<Expression(Infix(IntegerLiteral(6), "/", IntegerLiteral(2)))>>],
    [src |-> "1 / 0",
     program |-> <<Expression(Infix(IntegerLiteral(1), "/", IntegerLiteral(0)))>>],
    [src |-> "0 / 0",
     program |-> <<Expression(Infix(IntegerLiteral(0), "/", IntegerLiteral(0)))>>],
    [src |-> "let z = 1 - 1; 7 / z",
     program |-> <<Let("z", Infix(IntegerLiteral(1), "-", IntegerLiteral(1))),
                   Expression(Infix(IntegerLiteral(7), "/", Ident("z")))>>]
>>

\* every program handed to the compiler
AllPrograms ==
    Programs \o InfixPrograms \o PrefixPrograms \o HashKeyPrograms \o IndexPrograms
    \o CallPrograms \o OperandCallPrograms \o UnboundPrograms \o IfPrograms \o FunctionPrograms
    \o ClosurePrograms \o HashPrograms \o ArrayPrograms \o CallerSlotPrograms
    \o DivisionPrograms

\* bytecode handed to Vm::new that no compile produced: a byte that is no
\* opcode, and the first program of closures_test assembled by hand with the
\* captured local loaded before Closure (the shape closure_test of
\* compiler_test.rs expects of the compiler)
RawBytecodes == <<
    [src |-> "bytes 255", bytecode |-> [instructions |-> <<255>>, constants |-> <<>>]],
    [src |-> "bytes newClosure(99)()",
     bytecode |-> [instructions |-> make_u16_u8("Closure", 1, 0) \o make_u16("SetGlobal", 0)
                                    \o make_u16("GetGlobal", 0) \o make_u16("Constant", 2)
                                    \o make_u8("Call", 1) \o make_u16("SetGlobal", 1)
                                    \o make_u16("GetGlobal", 1) \o make_u8("Call", 0)
                                    \o make("Pop"),
                   constants |-> <<CompiledFunction(make_u8("GetFree", 0) \o make("ReturnValue"), 0, 0),
                                   CompiledFunction(make_u8("GetLocal", 0)
                                                    \o make_u16_u8("Closure", 0, 1)
                                                    \o make("ReturnValue"), 1, 1),
                                   Integer(99)>>]]
>>

\* the compiler after Compiler::new().compile(program), per program
Compiled == [i \in 1..Len(AllPrograms) |-> compile(Compiler_new, AllPrograms[i].program)]

Vm_new(bc) ==
    [constants |-> bc.constants, globals |-> EmptyMap, stack |-> EmptyMap, sp |-> 0,
     frames |-> <<Frame_new(Closure(CompiledFunction(bc.instructions, 0, 0), <<>>), 0)>>,
     frames_index |-> 1]

\* Compiler::new().compile(program), then Vm::new(bytecode) when compile
\* returned Ok; run is entered in the next step
Start(src, c, bc) ==
    /\ input = src
    /\ compile_err = c.err
    /\ tbl = c.symbol_table
    /\ LET m == Vm_new(IF c.err = "none" THEN bc ELSE [instructions |-> <<>>, constants |-> <<>>])
       IN  /\ constants = m.constants
           /\ globals = m.globals
           /\ stack = m.stack
           /\ sp = m.sp
           /\ frames = m.frames
           /\ frames_index = m.frames_index
    /\ err = "none"
    /\ result = None
    /\ ret = None
    /\ calls = <<>>
    /\ vlast = [op |-> "new", ip |-> 0, sp |-> 0, frames_index |-> 1,
                nargs |-> 0, callee |-> Null, args |-> <<>>, rec |-> None,
                top |-> Null, second |-> Null]

\* Vm::new_with_globals_store: the machine runs on the store it is handed
Vm_new_with_globals_store(bc, store) == [Vm_new(bc) EXCEPT !.globals = store]

\* the bytecode compile returned, or none
compiled_bytecode(c) ==
    IF c.err = "none" THEN bytecode(c) ELSE [instructions |-> <<>>, constants |-> <<>>]

\* one pass of the loop: the round before has ended (compile failed, or run
\* returned), line k is read, compiled and handed to a new machine
Repl_Read ==
    /\ repl.round >= 1
    /\ repl.round < MaxRounds
    /\ compile_err # "none" \/ result.ok \/ err \notin {"none", "panic"}
    /\ \E k \in 1..Len(ReplLines) :
          LET c == compile(Compiler_new_with_state(tbl, repl.constants), ReplLines[k].program)
              m == Vm_new_with_globals_store(compiled_bytecode(c), globals)
          IN  /\ input' = ReplLines[k].src
              /\ compile_err' = c.err
              /\ tbl' = c.symbol_table
              /\ repl' = ReplCompiled(repl, k, tbl, c)
              /\ constants' = m.constants
              /\ globals' = m.globals
              /\ stack' = m.stack
              /\ sp' = m.sp
              /\ frames' = m.frames
              /\ frames_index' = m.frames_index
    /\ err' = "none"
    /\ result' = None
    /\ ret' = None
    /\ calls' = <<>>
    /\ vlast' = [op |-> "new", ip |-> 0, sp |-> 0, frames_index |-> 1,
                 nargs |-> 0, callee |-> Null, args |-> <<>>, rec |-> None,
                 top |-> Null, second |-> Null]
    /\ UNCHANGED <<build, ndefs, topdefs, resolved, last, nops, code>>

Builds == {"debug", "release"}

Init ==
    /\ build \in Builds
    /\ \/ \E i \in 1..Len(AllPrograms) :
            /\ Start(AllPrograms[i].src, Compiled[i], bytecode(Compiled[i]))
            /\ repl = NoRepl
       \/ \E i \in 1..Len(RawBytecodes) :
            /\ Start(RawBytecodes[i].src, Compiler_new, RawBytecodes[i].bytecode)
            /\ repl = NoRepl
       \/ \E k \in 1..Len(ReplLines) :
            LET c == compile(Compiler_new, ReplLines[k].program)
            IN  /\ Start(ReplLines[k].src, c, bytecode(c))
                /\ repl = ReplCompiled(NoRepl, k, new_with_builtins, c)
    /\ code = NoCode
    /\ ndefs = <<0>>
    /\ topdefs = {}
    /\ resolved = [n \in {} |-> None]
    /\ last = [op |-> "new"]
    /\ nops = 0

Next ==
    \/ Run_GetFree
    \/ Run_CurrentClosure
    \/ Run_Closure
    \/ Run_GetBuiltin
    \/ Run_Return
    \/ Run_ReturnValue
    \/ Run_Call
    \/ Run_Index
    \/ Run_Hash
    \/ Run_Array
    \/ Run_SetGlobal
    \/ Run_GetGlobal
    \/ Run_SetLocal
    \/ Run_GetLocal
    \/ Run_True
    \/ Run_False
    \/ Run_Null
    \/ Run_Pop
    \/ Run_Constant
    \/ Run_Bang
    \/ Run_BinaryOp
    \/ Run_ComparisonOp
    \/ Run_Minus
    \/ Run_Jump
    \/ Run_JumpNotTruthy
    \/ Run_BadOpCode
    \/ Run_Finish
    \/ Repl_Read

Spec == Init /\ [][Next]_vars

\* a pass of the loop of run: the loop goes on while its condition holds
RunStep ==
    \/ Run_GetFree
    \/ Run_CurrentClosure
    \/ Run_Closure
    \/ Run_GetBuiltin
    \/ Run_Return
    \/ Run_ReturnValue
    \/ Run_Call
    \/ Run_Index
    \/ Run_Hash
    \/ Run_Array
    \/ Run_SetGlobal
    \/ Run_GetGlobal
    \/ Run_SetLocal
    \/ Run_GetLocal
    \/ Run_True
    \/ Run_False
    \/ Run_Null
    \/ Run_Pop
    \/ Run_Constant
    \/ Run_Bang
    \/ Run_BinaryOp
    \/ Run_ComparisonOp
    \/ Run_Minus
    \/ Run_Jump
    \/ Run_JumpNotTruthy
    \/ Run_BadOpCode
    \/ Run_Finish

\* where the loop of run stands: the instruction run last and the stack
\* pointer and frame it found
runpos == <<vlast.op, vlast.ip, vlast.sp, vlast.frames_index>>

\* weak fairness of the loop: a pass is possible exactly while run has not
\* returned, so the fairness of RunStep is stated with Running in the place
\* of ENABLED <<RunStep>>_runpos
RunFairness == []<>(~Running) \/ []<><<RunStep>>_runpos

\* the programs that call themselves until the stack is full, thousands of
\* passes of the loop later
Endless == {"let f = fn() { f(); }; f();", "let f = fn(x, y) { f(x, y); }; f(1, 2);"}

\* every start of Spec but those of the programs above
InitRun == Init /\ input \notin Endless

\* the loop of run going on until it returns
SpecRun == InitRun /\ [][Next]_vars /\ RunFairness

(***************************************************************************)
(* SpecSym: the symbol table under the calls the compiler issues.  A let   *)
(* statement or a parameter issues define, an identifier issues resolve,   *)
(* a function literal issues enter_scope (and define_function_name when    *)
(* the literal carries its let-bound name) and later leave_scope.          *)
(***************************************************************************)
SymNames == {"a", "len"}

NoneResolved == [n \in SymNames |-> None]

SymInit ==
    /\ tbl = new_with_builtins
    /\ ndefs = <<0>>
    /\ topdefs = {}
    /\ resolved = NoneResolved
    /\ last = [op |-> "new"]
    /\ nops = 0
    /\ build = "debug"
    /\ Start("", Compiler_new, bytecode(Compiler_new))
    /\ repl = NoRepl
    /\ code = NoCode

\* compiler.rs:131 (let) and :163 (parameter)
SymDefine(n) ==
    /\ num_definitions(tbl) < MaxDefs
    /\ nops < MaxSymOps
    /\ nops' = nops + 1
    /\ tbl' = define(tbl, n)
    /\ ndefs' = [ndefs EXCEPT ![tbl.store_index] = @ + 1]
    /\ topdefs' = IF tbl.store_index = 1 THEN topdefs \cup {n} ELSE topdefs
    /\ resolved' = NoneResolved
    /\ last' = [op |-> "define", name |-> n, sym |-> defined_symbol(tbl, n), pre |-> tbl]
    /\ UNCHANGED <<vmvars, code>>

\* compiler.rs:186
SymResolve(n) ==
    LET r == resolve(tbl, n)
    IN  /\ nops < MaxSymOps
        /\ nops' = nops + 1
        /\ tbl' = r.tbl
        /\ last' = [op |-> "resolve", name |-> n, res |-> [ok |-> r.ok, sym |-> IF r.ok THEN r.sym ELSE Symbol("Global", 0)],
                    seen |-> resolved[n], pre |-> tbl]
        /\ resolved' = [resolved EXCEPT ![n] = Some(last'.res)]
        /\ UNCHANGED <<ndefs, topdefs, vmvars, code>>

\* compiler.rs:158-161
SymEnterScope(maybe_name) ==
    /\ tbl.store_index < MaxDepth
    /\ nops < MaxSymOps
    /\ nops' = nops + 1
    /\ tbl' = IF maybe_name.ok THEN define_function_name(enter_scope(tbl), maybe_name.v)
                               ELSE enter_scope(tbl)
    /\ ndefs' = Append(ndefs, 0)
    /\ resolved' = NoneResolved
    /\ last' = [op |-> "enter_scope", pre |-> tbl]
    /\ UNCHANGED <<topdefs, vmvars, code>>

\* compiler.rs:90-98: the compiler leaves only a scope it has entered
SymLeaveScope ==
    /\ tbl.store_index > 1
    /\ nops < MaxSymOps
    /\ nops' = nops + 1
    /\ tbl' = leave_scope(tbl)
    /\ ndefs' = SubSeq(ndefs, 1, Len(ndefs) - 1)
    /\ resolved' = NoneResolved
    /\ last' = [op |-> "leave_scope", pre |-> tbl]
    /\ UNCHANGED <<topdefs, vmvars, code>>

SymNext ==
    \/ \E n \in SymNames : SymDefine(n)
    \/ \E n \in SymNames : SymResolve(n)
    \/ \E m \in {None} \cup {Some(n) : n \in SymNames} : SymEnterScope(m)
    \/ SymLeaveScope

SpecSym == SymInit /\ [][SymNext]_vars

(***************************************************************************)
(* The functions of code.rs applied to inputs drawn from bounded sets:     *)
(* every opcode with operands from the edges of their widths, and byte     *)
(* sequences of up to MaxInstructions instructions or stray bytes.         *)
(***************************************************************************)
MaxInstructions == 2

\* the operand values tried: all of u8, and the edges of u16
OperandValues(width) ==
    IF width = 1 THEN 0..(U8 - 1)
    ELSE {0, 1, U8 - 1, U8, U8 + 1, U16 \div 2, U16 - U8, U16 - 2, U16 - 1}

\* the operand tuples of an opcode
OperandTuples(op) ==
    CASE Len(widths(op)) = 0 -> {<<>>}
      [] Len(widths(op)) = 1 -> {<<a>> : a \in OperandValues(widths(op)[1])}
      [] Len(widths(op)) = 2 ->
            {<<a, b>> : a \in OperandValues(widths(op)[1]), b \in OperandValues(widths(op)[2])}

\* the make function whose operands are those of the opcode's definition
make_operands(op, operands) ==
    CASE widths(op) = <<>> -> make(op)
      [] widths(op) = <<2>> -> make_u16(op, operands[1])
      [] widths(op) = <<1>> -> make_u8(op, operands[1])
      [] widths(op) = <<2, 1>> -> make_u16_u8(op, operands[1], operands[2])

\* what a byte sequence is put together from: every opcode with small and
\* with large operands, and bytes that are no opcode
Item(op, operands) ==
    [bytes |-> make_operands(op, operands), name |-> definition_name(op),
     operands |-> operands]

Stray(byte) == [bytes |-> <<byte>>, name |-> "ERROR", operands |-> <<>>]

Items ==
    {Item(OpCode[i], [k \in 1..Len(widths(OpCode[i])) |-> k + 1]) : i \in 1..Len(OpCode)}
    \cup {Item(OpCode[i], [k \in 1..Len(widths(OpCode[i])) |->
                              IF widths(OpCode[i])[k] = 2 THEN U16 - 1 ELSE U8 - 1]) :
            i \in 1..Len(OpCode)}
    \cup {Stray(Len(OpCode)), Stray(U8 - 1)}

RECURSIVE ItemBytes(_)
ItemBytes(items) ==
    IF Len(items) = 0 THEN <<>> ELSE items[1].bytes \o ItemBytes(Tail(items))

ItemSeqs == UNION {[1..n -> Items] : n \in 0..MaxInstructions}

CodeInit ==
    /\ tbl = new_with_builtins
    /\ ndefs = <<0>>
    /\ topdefs = {}
    /\ resolved = NoneResolved
    /\ last = [op |-> "new"]
    /\ nops = 0
    /\ build = "debug"
    /\ Start("", Compiler_new, bytecode(Compiler_new))
    /\ repl = NoRepl
    /\ code = NoCode

\* op.make*(operands)
Code_Make ==
    /\ code.step = "new"
    /\ \E op \in {OpCode[i] : i \in 1..Len(OpCode)} :
          \E operands \in OperandTuples(op) :
              code' = [NoCode EXCEPT !.step = "make", !.op = op, !.operands = operands,
                                     !.bytes = make_operands(op, operands)]
    /\ UNCHANGED <<symvars, vmvars>>

\* read_operands(&op.definition(), &instructions[1..]) on what make returned
Code_ReadOperands ==
    /\ code.step = "make"
    /\ code' = [code EXCEPT !.step = "read_operands",
                            !.read = read_operands(widths(code.op), Tail(code.bytes))]
    /\ UNCHANGED <<symvars, vmvars>>

\* disassemble(&instructions)
Code_Disassemble ==
    /\ code.step = "new"
    /\ \E items \in ItemSeqs :
          code' = [NoCode EXCEPT !.step = "disassemble", !.items = items,
                                 !.bytes = ItemBytes(items),
                                 !.dis = disassemble(ItemBytes(items))]
    /\ UNCHANGED <<symvars, vmvars>>

CodeNext == Code_Make \/ Code_ReadOperands \/ Code_Disassemble

SpecCode == CodeInit /\ [][CodeNext]_vars

(***************************************************************************)
(* SpecEmit: the emitter inside a function body.  The symbol table is the  *)
(* one the compiler holds after the let statements x0, x1, .. of the body  *)
(* compiled so far; each step compiles the next statement of the body, a   *)
(* let or the read of a name, and code holds the instruction emitted for   *)
(* the symbol and the index of that symbol.                                *)
(***************************************************************************)
\* the most let statements compiled before the first step
MaxLocals == 256

\* the most statements compiled after them
MaxEmits == 2

LocalName(i) == "x" \o ToString(i)

\* the table after enter_scope and n let statements let x0 .. let x(n-1)
FunctionTable(n) ==
    [enter_scope(new_with_builtins) EXCEPT
        !.stores[2] = [store |-> [name \in {LocalName(i) : i \in 0..(n - 1)} |->
                                     Symbol("Local", CHOOSE i \in 0..(n - 1) : LocalName(i) = name)],
                       num_definitions |-> n,
                       free_symbols |-> <<>>]]

StartLocals == {0, 1, 2, U8 - 2, U8 - 1, MaxLocals}

EmitNames == {"a", "b"}

\* the compiler in the function's scope, with tbl as its symbol table
EmitCompiler == [Compiler_enter_scope(Compiler_new) EXCEPT !.symbol_table = tbl]

\* the last instruction of the buffer of compiler c
LastEmitted(c) ==
    SubSeq(current_instructions(c),
           c.scopes[c.scope_index + 1].last_instruction.v.position + 1,
           Len(current_instructions(c)))

EmitInit ==
    /\ \E n \in StartLocals : tbl = FunctionTable(n)
    /\ ndefs = <<0>>
    /\ topdefs = {}
    /\ resolved = NoneResolved
    /\ last = [op |-> "new"]
    /\ nops = 0
    /\ build = "debug"
    /\ input = ""
    /\ compile_err = "none"
    /\ LET m == Vm_new(bytecode(Compiler_new))
       IN  /\ constants = m.constants
           /\ globals = m.globals
           /\ stack = m.stack
           /\ sp = m.sp
           /\ frames = m.frames
           /\ frames_index = m.frames_index
    /\ err = "none"
    /\ result = None
    /\ ret = None
    /\ calls = <<>>
    /\ vlast = [op |-> "new", ip |-> 0, sp |-> 0, frames_index |-> 1,
                nargs |-> 0, callee |-> Null, args |-> <<>>, rec |-> None,
                top |-> Null, second |-> Null]
    /\ repl = NoRepl
    /\ code = NoCode

\* what a step records: the symbol the statement is about, by the index the
\* table gave it, and the instruction the compiler c emitted for it
Emitted(step, c, name) ==
    LET bytes == LastEmitted(c)
        op == try_from(bytes[1]).v
    IN  [NoCode EXCEPT !.step = step, !.op = op,
                       !.operands = <<resolve(c.symbol_table, name).sym.index>>,
                       !.bytes = bytes,
                       !.read = read_operands(widths(op), Tail(bytes))]

\* the Let arm of compile_statement on `let name = 1;`
Emit_Let(name) ==
    /\ nops < MaxEmits
    /\ nops' = nops + 1
    /\ LET c == compile_statement(EmitCompiler, Let(name, IntegerLiteral(1)))
       IN  /\ c.err = "none"
           /\ tbl' = c.symbol_table
           /\ code' = Emitted("let", c, name)
    /\ UNCHANGED <<ndefs, topdefs, resolved, last, vmvars>>

\* the Ident arm of compile_expression on a name of the function's scope
Emit_Get(name) ==
    /\ nops < MaxEmits
    /\ name \in DOMAIN tbl.stores[tbl.store_index].store
    /\ nops' = nops + 1
    /\ LET c == compile_expression(EmitCompiler, Ident(name))
       IN  /\ c.err = "none"
           /\ tbl' = c.symbol_table
           /\ code' = Emitted("get", c, name)
    /\ UNCHANGED <<ndefs, topdefs, resolved, last, vmvars>>

\* the names read: the first and the last local, and the ones a step defined
GetNames == {LocalName(0)} \cup {LocalName(n - 1) : n \in StartLocals \ {0}} \cup EmitNames

EmitNext ==
    \/ \E name \in EmitNames : Emit_Let(name)
    \/ \E name \in GetNames : Emit_Get(name)

SpecEmit == EmitInit /\ [][EmitNext]_vars

(***************************************************************************)
(* Claims about the symbol table (checked under SpecSym)                   *)
(***************************************************************************)
\* the scope (0-based) and symbol a lookup of name from the current scope of t finds
Found(t, name) == resolve_with_index(t, name, t.store_index - 1)

FreeLists(t) == [i \in 1..Len(t.stores) |-> t.stores[i].free_symbols]

\* C5: resolving a name that is Local in an enclosing scope returns a Free symbol,
\* appends the original Local symbol to the free_symbols list of the current
\* (inner) scope, and the Free symbol's index is the original's position there.
C5_FreeRecordedInInnerScope ==
    (/\ last.op = "resolve"
     /\ Found(last.pre, last.name).ok
     /\ Found(last.pre, last.name).index < last.pre.store_index - 1
     /\ Found(last.pre, last.name).sym.scope = "Local")
    => LET orig == Found(last.pre, last.name).sym
           fs == free_symbols(tbl)
       IN  /\ last.res.ok
           /\ last.res.sym.scope = "Free"
           /\ fs = Append(free_symbols(last.pre), orig)
           /\ last.res.sym.index = Len(fs) - 1

\* C6: when the Local is found two or more scopes above the current one, every
\* scope strictly between the definition and the use sees the name as Free and
\* has an entry for it in its own free_symbols.
C6_IntermediateScopesSeeFree ==
    (/\ last.op = "resolve"
     /\ Found(last.pre, last.name).ok
     /\ Found(last.pre, last.name).index + 2 <= last.pre.store_index - 1
     /\ Found(last.pre, last.name).sym.scope = "Local")
    => \A j \in (Found(last.pre, last.name).index + 1)..(tbl.store_index - 2) :
           LET st == tbl.stores[j + 1]
           IN  /\ last.name \in DOMAIN st.store
               /\ st.store[last.name].scope = "Free"
               /\ st.store[last.name].index < Len(st.free_symbols)

\* C7: a resolve of a name that was already resolved in this scope, with no
\* define, enter_scope or leave_scope since, returns the same result and leaves
\* every free_symbols list as it was.
C7_ResolveIdempotent ==
    (last.op = "resolve" /\ last.seen.ok)
    => /\ last.res = last.seen.v
       /\ FreeLists(tbl) = FreeLists(last.pre)

C7_Witness ==
    /\ last.op = "resolve"
    /\ last.seen.ok
    /\ last.res.ok
    /\ last.res.sym.scope = "Free"
    /\ last.pre.store_index = 3

\* C8: define returns Global at the outermost scope and Local below it, with the
\* number of earlier define calls of that scope as index; num_definitions counts
\* exactly the define calls (no built-in, no Free promotion).
C8_DefineIndices ==
    /\ \A i \in 1..Len(tbl.stores) : tbl.stores[i].num_definitions = ndefs[i]
    /\ last.op = "define"
        => last.sym = Symbol(IF tbl.store_index = 1 THEN "Global" ELSE "Local",
                             ndefs[tbl.store_index] - 1)

C8_Witness ==
    /\ last.op = "define"
    /\ last.sym = Symbol("Local", 1)
    /\ Len(free_symbols(tbl)) > 0

\* C9 as stated: the scope stack is non-empty and scope 0 maps every built-in
\* name to its BuiltIn symbol.
C9_BuiltInsAlwaysInScope0 ==
    /\ Len(tbl.stores) >= 1
    /\ \A i \in 1..Len(BuiltInAll) :
           /\ BuiltInAll[i] \in DOMAIN tbl.stores[1].store
           /\ tbl.stores[1].store[BuiltInAll[i]] = Symbol("BuiltIn", i - 1)

\* C9 amended: the scope stack is non-empty and scope 0 maps every built-in
\* name to its BuiltIn symbol unless a define at the outermost scope has rebound
\* the name, and then to the Global symbol of that define.
C9_BuiltInsUnlessRedefined ==
    /\ Len(tbl.stores) >= 1
    /\ tbl.store_index = Len(tbl.stores)
    /\ \A i \in 1..Len(BuiltInAll) :
           /\ BuiltInAll[i] \in DOMAIN tbl.stores[1].store
           /\ IF BuiltInAll[i] \in topdefs
              THEN /\ tbl.stores[1].store[BuiltInAll[i]].scope = "Global"
                   /\ tbl.stores[1].store[BuiltInAll[i]].index < tbl.stores[1].num_definitions
              ELSE tbl.stores[1].store[BuiltInAll[i]] = Symbol("BuiltIn", i - 1)

C9_Witness ==
    /\ "len" \in topdefs
    /\ tbl.store_index = 3
    /\ last.op = "resolve"
    /\ last.name = "len"
    /\ last.res.sym.scope = "Global"

(***************************************************************************)
(* Claims about the virtual machine (checked under Spec)                   *)
(***************************************************************************)
\* the input is one of the programs handed to the compiler (no raw bytecode)
FromCompiler == \E i \in 1..Len(AllPrograms) : input = AllPrograms[i].src

\* C1: when the compiler accepted the program and run returned without error,
\* the value returned is the value of the last pop (the slot stack[sp] the pop
\* left behind), and Null when nothing was ever popped, as for the empty program.
C1_RunReturnsLastPopped ==
    (FromCompiler /\ compile_err = "none" /\ err = "none" /\ result.ok)
    => /\ result.v = (IF ret.ok THEN ret.v ELSE Null)
       /\ result.v = StackAt(VM, sp)
       /\ input = "" => result.v = Null

C1_Witness ==
    /\ input = "let sum = fn(a, b) { let c = a + b; c; }; sum(1, 2) + sum(3, 4);"
    /\ result.ok
    /\ ret.ok
    /\ result.v = Integer(10)
    /\ err = "none"

\* C2: a Call of a closure pushes one frame for the callee with bp = sp - nargs
\* and leaves the caller to resume after the Call; the Return or ReturnValue
\* that ends the callee pops that frame, leaves sp one above the slot the callee
\* held (net effect -(nargs+1)+1 on the depth before the Call) with the return
\* value (Null for Return) on top, and the caller at the instruction after the
\* Call.  A Call of a built-in pushes no frame, pops the arguments and the
\* built-in, and pushes the built-in's result.
C2_CallReturnDiscipline ==
    /\ (vlast.op = "Call" /\ err = "none" /\ vlast.callee.t = "Closure")
       => /\ frames_index = vlast.frames_index + 1
          /\ Len(frames) = frames_index
          /\ current_frame(VM).cl = vlast.callee
          /\ current_frame(VM).bp = vlast.sp - vlast.nargs
          /\ current_frame(VM).ip = 0
          /\ frames[frames_index - 1].ip = vlast.ip + 1
          /\ sp = vlast.sp + vlast.callee.compiled_function.num_locals
    /\ (vlast.op \in {"Return", "ReturnValue"} /\ err = "none" /\ vlast.rec.ok)
       => /\ frames_index = vlast.frames_index - 1
          /\ Len(frames) = frames_index
          /\ sp = vlast.rec.v.sp - (vlast.rec.v.nargs + 1) + 1
          /\ StackAt(VM, sp - 1) = (IF vlast.op = "Return" THEN Null ELSE ret.v)
          /\ current_frame(VM).ip = vlast.rec.v.ip + 2
    /\ (vlast.op = "Call" /\ err = "none" /\ vlast.callee.t = "BuiltIn")
       => /\ frames_index = vlast.frames_index
          /\ frames = [frames EXCEPT ![frames_index].ip = vlast.ip + 2]
          /\ sp = vlast.sp - (vlast.nargs + 1) + 1
          /\ call_builtin(vlast.callee.v, vlast.args).ok
          /\ StackAt(VM, sp - 1) = call_builtin(vlast.callee.v, vlast.args).v

C2_Witness ==
    /\ vlast.op = "ReturnValue"
    /\ err = "none"
    /\ vlast.rec.ok
    /\ vlast.rec.v.nargs = 2
    /\ StackAt(VM, sp - 1) = Integer(7)
    /\ frames_index = 1

\* the programs of closures_test with the value each is expected to return
ClosureTests == {
    [src |-> "let newClosure = fn(a) { fn() { a; }; }; let closure = newClosure(99); closure();",
     expected |-> Integer(99)],
    [src |-> "let newAdder = fn(a, b) { fn(c) { a + b + c }; }; let adder = newAdder(1, 2); adder(8);",
     expected |-> Integer(11)],
    [src |-> "let a = 1; let newAdderOuter = fn(b) { fn(c) { fn(d) { a + b + c + d }; }; }; let newAdderInner = newAdderOuter(2); let adder = newAdderInner(3); adder(8);",
     expected |-> Integer(14)]}

\* C3: GetFree i inside a closure body pushes the value the i-th captured symbol
\* had in the enclosing frame when the Closure instruction ran, also after that
\* frame has returned and across nesting levels: GetFree never fails, and the
\* programs that read captured values return the values captured.
C3_FreeVariablesCaptured ==
    /\ (FromCompiler /\ vlast.op = "GetFree") => err = "none"
    /\ input = "bytes newClosure(99)()"
       => /\ err = "none"
          /\ result.ok => result.v = Integer(99)
    /\ \A t \in ClosureTests :
           input = t.src => /\ err = "none"
                            /\ result.ok => result.v = t.expected

\* the programs of recursive_functions_test that call countDown
CountDownTests == {
    "let countDown = fn(x) { if (x == 0) { return 0; } else { countDown(x - 1); } }; countDown(1);",
    "let countDown = fn(x) { if (x == 0) { return 0; } else { countDown(x - 1); } }; let wrapper = fn() { countDown(1); }; wrapper();",
    "let wrapper = fn() { let countDown = fn(x) { if (x == 0) { return 0; } else { countDown(x - 1); } }; countDown(1); }; wrapper();"}

\* the body of countDown with the reference to countDown as CurrentClosure
CountDownInstructions ==
    make_u8("GetLocal", 0) \o make_u16("Constant", 0) \o make("Equal")
    \o make_u16("JumpNotTruthy", 16) \o make_u16("Constant", 1) \o make("ReturnValue")
    \o make_u16("Jump", 25) \o make("CurrentClosure") \o make_u8("GetLocal", 0)
    \o make_u16("Constant", 2) \o make("Sub") \o make_u8("Call", 1) \o make("ReturnValue")

\* the frame runs the body of countDown
InCountDown(frame) == frame.cl.compiled_function.instructions = CountDownInstructions

C10_FramesBounded ==
    /\ Len(frames) <= MAX_FRAMES
    /\ frames_index <= MAX_FRAMES

(***************************************************************************)
(* The operand stack and the errors of run.                                *)
(***************************************************************************)
\* C11: while run has not returned, 0 <= sp <= STACK_SIZE: a step that would
\* raise sp above STACK_SIZE, the reservation of local slots by Call
\* included, makes run return StackOverflow instead.
C11_StackPointerBounded == Running => (0 <= sp /\ sp <= STACK_SIZE)

\* the Call at ip has its operand and its callee slot; Callee is that slot
CallReady == Fetch("Call") /\ has_operands(VM, 1) /\ sp >= 1 + Operand8(1)

Callee == StackAt(VM, sp - 1 - Operand8(1))

\* C12: a Call of a closure with a number of arguments other than its
\* num_parameters makes run return WrongNumberOfArgs; that Call pushes no
\* frame and leaves sp as it was.
C12_WrongArityLeavesMachine ==
    [][(/\ CallReady
        /\ Callee.t = "Closure"
        /\ Callee.compiled_function.num_parameters # Operand8(1))
       => (/\ err' = "WrongNumberOfArgs"
           /\ Len(frames') = Len(frames)
           /\ frames_index' = frames_index
           /\ sp' = sp)]_vars

C12_Witness ==
    /\ FromCompiler
    /\ vlast.op = "Call"
    /\ vlast.callee.t = "Closure"
    /\ vlast.callee.compiled_function.num_parameters = 2
    /\ vlast.nargs = 1
    /\ err = "WrongNumberOfArgs"
    /\ sp = vlast.sp

\* C13: a Call whose callee slot stack[sp-1-nargs] holds neither a Closure
\* nor a BuiltIn makes run return CallingNonFunction.
C13_CallingNonFunction ==
    [][(CallReady /\ Callee.t \notin {"Closure", "BuiltIn"})
       => err' = "CallingNonFunction"]_vars

C13_Witness ==
    /\ FromCompiler
    /\ vlast.op = "Call"
    /\ vlast.nargs = 1
    /\ vlast.callee.t = "Array"
    /\ err = "CallingNonFunction"

(***************************************************************************)
(* The identifiers of a program that nothing binds, read off the syntax    *)
(* tree: defs is the set of names bound where the expression stands.  A    *)
(* let binds its name from its own value on, to the end of its block; a    *)
(* function literal binds its parameters and the name it is bound to in    *)
(* its body.                                                               *)
(***************************************************************************)
RECURSIVE UnboundIn(_, _)
RECURSIVE UnboundInBlock(_, _, _)
UnboundIn(x, defs) ==
    CASE x.e = "Ident" -> x.name \notin defs
      [] x.e = "Prefix" -> UnboundIn(x.right, defs)
      [] x.e = "Infix" -> UnboundIn(x.left, defs) \/ UnboundIn(x.right, defs)
      [] x.e = "If" ->
            \/ UnboundIn(x.cond, defs)
            \/ UnboundInBlock(x.cons, 1, defs)
            \/ (x.alt.ok /\ UnboundInBlock(x.alt.v, 1, defs))
      [] x.e = "FunctionLiteral" ->
            UnboundInBlock(x.body, 1,
                           defs \cup {x.parameters[i] : i \in 1..Len(x.parameters)}
                                \cup (IF x.name.ok THEN {x.name.v} ELSE {}))
      [] x.e = "Call" ->
            UnboundIn(x.func, defs) \/ \E i \in 1..Len(x.args) : UnboundIn(x.args[i], defs)
      [] x.e = "ArrayLiteral" -> \E i \in 1..Len(x.elements) : UnboundIn(x.elements[i], defs)
      [] x.e = "Index" -> UnboundIn(x.left, defs) \/ UnboundIn(x.index, defs)
      [] x.e = "HashLiteral" ->
            \E i \in 1..Len(x.pairs) :
                UnboundIn(x.pairs[i][1], defs) \/ UnboundIn(x.pairs[i][2], defs)
      [] OTHER -> FALSE

UnboundInBlock(statements, i, defs) ==
    IF i > Len(statements) THEN FALSE
    ELSE IF statements[i].s = "Let"
         THEN \/ UnboundIn(statements[i].expr, defs \cup {statements[i].name})
              \/ UnboundInBlock(statements, i + 1, defs \cup {statements[i].name})
    ELSE UnboundIn(statements[i].expr, defs) \/ UnboundInBlock(statements, i + 1, defs)

\* the source texts of the programs that reference an unbound identifier
UnboundSrcs ==
    {AllPrograms[i].src : i \in {j \in 1..Len(AllPrograms) :
        UnboundInBlock(AllPrograms[j].program, 1,
                       {BuiltInAll[k] : k \in 1..Len(BuiltInAll)})}}

\* C14: compiling a program that references an identifier which no enclosing
\* scope defines and which is no built-in returns SymbolNotFound and no
\* bytecode: the machine holds no instruction and no constant, and runs
\* nothing.
C14_UnboundIsSymbolNotFound ==
    input \in UnboundSrcs =>
        /\ compile_err = "SymbolNotFound"
        /\ constants = <<>>
        /\ instructions(VM) = <<>>
        /\ vlast.op = "new"
        /\ ~result.ok

C14_Witness ==
    /\ input = "let f = fn(a) { a + foo }; f(1)"
    /\ input \in UnboundSrcs
    /\ compile_err = "SymbolNotFound"

\* the error of the built-in the last Call applied to its arguments, "none"
\* when the last instruction was no such Call or the built-in returned a value
BuiltInError ==
    IF vlast.op = "Call" /\ vlast.callee.t = "BuiltIn"
       /\ ~call_builtin(vlast.callee.v, vlast.args).ok
    THEN call_builtin(vlast.callee.v, vlast.args).err
    ELSE "none"

\* C15: the error of a built-in surfaces from run with its kind: a wrong
\* number of arguments as WrongNumberOfArgs, a wrongly typed argument as an
\* unsupported-input error that is not the arity error.
C15_BuiltInErrorKindPreserved ==
    /\ BuiltInError = "WrongNumberOfArguments" => err = "WrongNumberOfArgs"
    /\ BuiltInError = "UnsupportedInputToBuiltIn"
           => err \in {"UnsupportedInputToBuiltIn", "UnsupportedOperands"}

\* the operands the last instruction found on the stack: right on top, left
\* below it
Right == vlast.top

Left == vlast.second

BothOf(variant) == Left.t = variant /\ Right.t = variant

\* the last instruction was an operator applied to operands of types it does
\* not support
UnsupportedOperandTypes ==
    \/ vlast.op = "Add" /\ vlast.sp >= 2 /\ ~BothOf("Integer") /\ ~BothOf("Str")
    \/ vlast.op \in {"Sub", "Mul", "Div", "GreaterThan"} /\ vlast.sp >= 2 /\ ~BothOf("Integer")
    \/ vlast.op \in {"Equal", "NotEqual"} /\ vlast.sp >= 2 /\ Left.t # Right.t
    \/ vlast.op = "Minus" /\ vlast.sp >= 1 /\ Right.t # "Integer"

\* C16: every operator applied to operand types it does not support makes
\* run return UnsupportedOperands.
C16_TypeMismatchIsUnsupportedOperands ==
    UnsupportedOperandTypes => err = "UnsupportedOperands"

\* C17: on two values of the same hashable variant Equal pushes true exactly
\* when their contents match, and NotEqual pushes the negation.
C17_EqualOnSameVariant ==
    (/\ vlast.op \in {"Equal", "NotEqual"}
     /\ vlast.sp >= 2
     /\ Left.t = Right.t
     /\ is_hashable(Left))
    => /\ err = "none"
       /\ sp = vlast.sp - 1
       /\ StackAt(VM, sp - 1).t = "Boolean"
       /\ StackAt(VM, sp - 1).v = ((vlast.op = "Equal") <=> (Left.v = Right.v))

\* the falsy values: Boolean(false) and Null
Falsy(obj) == (obj.t = "Boolean" /\ obj.v = FALSE) \/ obj.t = "Null"

\* the operand of the jump instruction the last step executed
JumpPos == read_uint16(ins_at(VM, vlast.ip + 1), ins_at(VM, vlast.ip + 2))

\* C18: Boolean(false) and Null are falsy and every other value is truthy,
\* for JumpNotTruthy and Bang alike: JumpNotTruthy jumps exactly when the
\* value it pops is falsy, Bang pushes true exactly when the value it pops is
\* falsy.
C18_TruthinessConsistent ==
    /\ (vlast.op = "JumpNotTruthy" /\ vlast.sp >= 1 /\ err = "none")
       => /\ sp = vlast.sp - 1
          /\ IP = IF Falsy(Right) THEN JumpPos ELSE vlast.ip + 3
    /\ (vlast.op = "Bang" /\ vlast.sp >= 1)
       => /\ err = "none"
          /\ sp = vlast.sp
          /\ StackAt(VM, sp - 1).t = "Boolean"
          /\ StackAt(VM, sp - 1).v = Falsy(Right)

C18_Witness ==
    /\ FromCompiler
    /\ vlast.op = "JumpNotTruthy"
    /\ Right.t = "Integer"
    /\ Right.v = 0
    /\ JumpPos # vlast.ip + 3
    /\ IP = vlast.ip + 3

\* the value on top of the stack
Top == StackAt(VM, sp - 1)

\* the last step was an Index that found both operands: the index on top,
\* the indexed value below it
Indexing == vlast.op = "Index" /\ vlast.sp >= 2

\* C19: Index on an Array with an Integer idx pushes the element at idx when
\* 0 <= idx < len and Null for every other idx, never an error; Index on a
\* Hash with a hashable key pushes the value stored under the key, or Null
\* when the hash has no such key.
C19_IndexPushesElementOrNull ==
    /\ (Indexing /\ Left.t = "Array" /\ Right.t = "Integer")
       => /\ err = "none"
          /\ sp = vlast.sp - 1
          /\ IF 0 <= Right.v /\ Right.v < Len(Left.v)
             THEN Top.t = Left.v[Right.v + 1].t /\ Top = Left.v[Right.v + 1]
             ELSE Top.t = "Null"
    /\ (Indexing /\ Left.t = "Hash" /\ Right.t \in {"Integer", "Boolean", "Str"})
       => /\ err = "none"
          /\ sp = vlast.sp - 1
          /\ IF \E k \in DOMAIN Left.v : k.t = Right.t /\ to_hashable_object(Right) = k
             THEN Top.t = Left.v[to_hashable_object(Right)].t
                  /\ Top = Left.v[to_hashable_object(Right)]
             ELSE Top.t = "Null"
    /\ (result.ok /\ input = "[1, 2, 3][2]")
       => (result.v.t = "Integer" /\ result.v.v = 3)
    /\ (result.ok /\ input = "{1: 2, \"a\": 3, true: 4}[\"a\"]")
       => (result.v.t = "Integer" /\ result.v.v = 3)
    /\ (result.ok /\ input = "{1: 2, \"a\": 3, true: 4}[true]")
       => (result.v.t = "Integer" /\ result.v.v = 4)

C19_Witness ==
    /\ FromCompiler
    /\ Indexing
    /\ Left.t = "Array"
    /\ Len(Left.v) = 3
    /\ Right.t = "Integer"
    /\ Right.v = 0 - 1
    /\ err = "none"
    /\ Top.t = "Null"

\* the last step was a Hash instruction building a hash of one pair: the
\* value on top, the key below it
HashingOnePair ==
    /\ vlast.op = "Hash"
    /\ vlast.sp >= 2
    /\ read_uint16(ins_at(VM, vlast.ip + 1), ins_at(VM, vlast.ip + 2)) = 2

\* C20: a hash key that is no Integer, Boolean or String makes run return
\* UnsupportedOperands, when Hash builds a hash with such a key and when Index
\* looks such a key up in a hash.
C20_NonHashableKeyUnsupported ==
    /\ (HashingOnePair /\ Left.t \notin {"Integer", "Boolean", "Str"})
       => err = "UnsupportedOperands"
    /\ (Indexing /\ Left.t = "Hash" /\ Right.t \notin {"Integer", "Boolean", "Str"})
       => err = "UnsupportedOperands"

C20_Witness ==
    /\ FromCompiler
    /\ HashingOnePair
    /\ Left.t = "Array"
    /\ err = "UnsupportedOperands"

(***************************************************************************)
(* The loop of the REPL.                                                   *)
(***************************************************************************)
\* the line of the current round
ReplLine == ReplLines[repl.line]

\* C21: with the symbol table, the constant pool and the globals shared by
\* the rounds of the REPL, a name bound by a let in an earlier round resolves
\* to the symbol that let defined in every later round, a later round that
\* reads the name gets the value the let stored, and every Constant of the
\* round's bytecode addresses a constant of the round's own line.
C21_GlobalsPersistAcrossRounds ==
    repl.round >= 1 =>
        /\ \A n \in ReplNames :
              repl.sym[n].ok =>
                  /\ Found(tbl, n).ok
                  /\ Found(tbl, n).sym = repl.sym[n].v
        /\ \A n \in ReplNames :
              (/\ ReplLine.reads.ok
               /\ ReplLine.reads.v = n
               /\ repl.val[n].ok
               /\ result.ok)
              => (result.v.t = repl.val[n].v.t /\ result.v = repl.val[n].v)
        /\ (vlast.op = "Constant" /\ err = "none")
           => (StackAt(VM, sp - 1).t = "Integer"
               /\ StackAt(VM, sp - 1).v \in ReplLine.literals)

(***************************************************************************)
(* Encoding and disassembly (SpecCode).                                    *)
(***************************************************************************)
RECURSIVE Sum(_)
Sum(ws) == IF Len(ws) = 0 THEN 0 ELSE ws[1] + Sum(Tail(ws))

\* C24: for every opcode and every operand value within its width,
\* read_operands on the bytes make returned, without the opcode byte, gives
\* back the operands (a 16-bit operand stored big-endian, an 8-bit operand
\* in one byte) and a byte count equal to the sum of the widths.
C24_EncodingRoundTrips ==
    code.step = "read_operands" =>
        /\ code.bytes[1] = into(code.op)
        /\ Len(code.bytes) = 1 + Sum(widths(code.op))
        /\ code.read.ok
        /\ code.read.operands = code.operands
        /\ code.read.n = Sum(widths(code.op))
        /\ (Len(widths(code.op)) >= 1 /\ widths(code.op)[1] = 2)
           => (code.bytes[2] * 256 + code.bytes[3] = code.operands[1])
        /\ widths(code.op) = <<1>> => code.bytes[2] = code.operands[1]
        /\ widths(code.op) = <<2, 1>> => code.bytes[4] = code.operands[2]

C24_Witness ==
    /\ code.step = "read_operands"
    /\ code.op = "Closure"
    /\ code.operands = <<65534, 255>>
    /\ code.bytes = <<into("Closure"), 255, 254, 255>>
    /\ code.read.operands = <<65534, 255>>
    /\ code.read.n = 3

\* the byte offset of item i: the number of bytes of the items before it
RECURSIVE OffsetOf(_, _)
OffsetOf(items, i) == IF i = 1 THEN 0 ELSE OffsetOf(items, i - 1) + Len(items[i - 1].bytes)

\* C25: disassemble returns one line per instruction, each starting with the
\* zero-padded byte offset of the instruction; a byte that is no opcode gives
\* a line rendering ERROR at its offset, and the disassembly goes on with the
\* next byte.
C25_DisassembleLinePerInstruction ==
    code.step = "disassemble" =>
        /\ code.dis.ok
        /\ Len(code.dis.lines) = Len(code.items)
        /\ \A i \in 1..Len(code.items) :
              i <= Len(code.dis.lines) =>
                  code.dis.lines[i] =
                      join(<<format_04(OffsetOf(code.items, i)), code.items[i].name>>
                           \o format_operands(code.items[i].operands), " ")

(***************************************************************************)
(* Claims about the compiler's output (checked under Spec)                 *)
(***************************************************************************)
\* the instructions of a buffer, read from byte ip on: the position, the
\* opcode and the operands of each
RECURSIVE Decoded(_, _)
Decoded(ins, ip) ==
    IF ip >= Len(ins) THEN <<>>
    ELSE LET op == try_from(ins[ip + 1]).v
             r == read_operands(widths(op), SubSeq(ins, ip + 2, Len(ins)))
         IN  <<[pos |-> ip, op |-> op, operands |-> r.operands]>>
             \o Decoded(ins, ip + 1 + r.n)

\* the state is the one compile and Vm::new left: nothing has run yet
JustCompiled == FromCompiler /\ compile_err = "none" /\ vlast.op = "new"

\* the program compiled
ProgramOf(src) ==
    AllPrograms[CHOOSE i \in 1..Len(AllPrograms) : AllPrograms[i].src = src].program

\* the instruction buffers compile produced: the main one, then the one of
\* every CompiledFunction of the constant pool
Buffers ==
    <<frames[1].cl.compiled_function.instructions>>
    \o [k \in 1..Len(SelectSeq(constants, LAMBDA o : o.t = "CompiledFunction")) |->
           SelectSeq(constants, LAMBDA o : o.t = "CompiledFunction")[k].instructions]

\* the if-expressions without alternative of an expression, of a sequence of
\* expressions and of a block, counted on the syntax tree
RECURSIVE IfsWithoutElse(_)
RECURSIVE IfsWithoutElseAll(_, _)
RECURSIVE IfsWithoutElseBlock(_, _)
IfsWithoutElse(x) ==
    CASE x.e = "If" ->
            IfsWithoutElse(x.cond) + IfsWithoutElseBlock(x.cons, 1)
            + (IF x.alt.ok THEN IfsWithoutElseBlock(x.alt.v, 1) ELSE 1)
      [] x.e = "Prefix" -> IfsWithoutElse(x.right)
      [] x.e = "Infix" -> IfsWithoutElse(x.left) + IfsWithoutElse(x.right)
      [] x.e = "Index" -> IfsWithoutElse(x.left) + IfsWithoutElse(x.index)
      [] x.e = "FunctionLiteral" -> IfsWithoutElseBlock(x.body, 1)
      [] x.e = "Call" -> IfsWithoutElse(x.func) + IfsWithoutElseAll(x.args, 1)
      [] x.e = "ArrayLiteral" -> IfsWithoutElseAll(x.elements, 1)
      [] x.e = "HashLiteral" ->
            IfsWithoutElseAll([i \in 1..(2 * Len(x.pairs)) |->
                                  x.pairs[(i + 1) \div 2][2 - (i % 2)]], 1)
      [] OTHER -> 0

IfsWithoutElseAll(exprs, i) ==
    IF i > Len(exprs) THEN 0
    ELSE IfsWithoutElse(exprs[i]) + IfsWithoutElseAll(exprs, i + 1)

IfsWithoutElseBlock(statements, i) ==
    IF i > Len(statements) THEN 0
    ELSE IfsWithoutElse(statements[i].expr) + IfsWithoutElseBlock(statements, i + 1)

\* the positions of the Null instructions of a buffer
NullsOf(ins) ==
    {Decoded(ins, 0)[k].pos :
        k \in {j \in 1..Len(Decoded(ins, 0)) : Decoded(ins, 0)[j].op = "Null"}}

\* the targets of the JumpNotTruthy instructions of a buffer
JumpNotTruthyTargets(ins) ==
    {Decoded(ins, 0)[k].operands[1] :
        k \in {j \in 1..Len(Decoded(ins, 0)) : Decoded(ins, 0)[j].op = "JumpNotTruthy"}}

RECURSIVE CountNulls(_, _)
CountNulls(buffers, i) ==
    IF i > Len(buffers) THEN 0
    ELSE Cardinality(NullsOf(buffers[i])) + CountNulls(buffers, i + 1)

\* the member of IfPrograms that is running
IfCase == IfPrograms[CHOOSE k \in 1..Len(IfPrograms) : IfPrograms[k].src = input]

InIfPrograms == \E k \in 1..Len(IfPrograms) : IfPrograms[k].src = input

\* C22: the compiler emits one Null per if-expression without alternative
\* and nowhere else, and each stands where a JumpNotTruthy jumps to (the
\* alternative position); run on a falsy condition such an if-expression is
\* Null, and on a truthy condition it is the value of the consequence's last
\* expression statement.
C22_IfWithoutElseIsNull ==
    /\ JustCompiled =>
        /\ CountNulls(Buffers, 1) = IfsWithoutElseBlock(ProgramOf(input), 1)
        /\ \A i \in 1..Len(Buffers) :
               NullsOf(Buffers[i]) \subseteq JumpNotTruthyTargets(Buffers[i])
    /\ (InIfPrograms /\ result.ok /\ err = "none"
        /\ ~IfCase.alt.ok /\ IfCase.cons.value.ok)
       => result.v = (IF IfCase.cond.src = "true"
                      THEN IfCase.cons.value.v ELSE Null)

C22_Witness ==
    /\ input = "let r = if ((if (false) { 1 })) { 1; 20 }; r"
    /\ result.ok
    /\ result.v = Null
    /\ Cardinality(NullsOf(Buffers[1])) = 2

\* the program is one expression statement l < r
IsLessThan(program) ==
    /\ Len(program) = 1
    /\ program[1].s = "Expression"
    /\ program[1].expr.e = "Infix"
    /\ program[1].expr.op = "<"

\* r > l, for the program l < r
Mirror(program) ==
    <<Expression(Infix(program[1].expr.right, ">", program[1].expr.left))>>

\* C23: l < r compiles to what r > l compiles to, instructions and constants
\* (or to the same error): the instructions of r, then those of l, then
\* GreaterThan; and run on two integers l < r is true exactly when l is less
\* than r.
C23_LessThanIsFlippedGreaterThan ==
    /\ (FromCompiler /\ vlast.op = "new" /\ IsLessThan(ProgramOf(input)))
       => LET program == ProgramOf(input)
              flipped == compile(Compiler_new, Mirror(program))
              right == compile_expression(Compiler_new, program[1].expr.right)
              both == compile_expression(right, program[1].expr.left)
          IN  /\ compile_err = flipped.err
              /\ compile_err = "none" =>
                    /\ Buffers[1] = current_instructions(flipped)
                    /\ constants = flipped.constants
                    /\ Buffers[1] = current_instructions(both)
                                     \o make("GreaterThan") \o make("Pop")
                    /\ SubSeq(Buffers[1], 1, Len(current_instructions(right)))
                       = current_instructions(right)
    /\ (FromCompiler /\ result.ok /\ err = "none" /\ IsLessThan(ProgramOf(input)))
       => LET x == ProgramOf(input)[1].expr
          IN  (x.left.e = "IntegerLiteral" /\ x.right.e = "IntegerLiteral")
              => (result.v.t = "Boolean" /\ result.v.v = (x.left.v < x.right.v))

C23_Witness ==
    /\ input = "1 < 2"
    /\ constants = <<Integer(2), Integer(1)>>
    /\ result.ok
    /\ result.v = Boolean(TRUE)

\* the instruction of a buffer that starts at byte pos; op "none" when no
\* instruction starts there
At(ins, pos) ==
    IF \E k \in 1..Len(Decoded(ins, 0)) : Decoded(ins, 0)[k].pos = pos
    THEN Decoded(ins, 0)[CHOOSE k \in 1..Len(Decoded(ins, 0)) : Decoded(ins, 0)[k].pos = pos]
    ELSE [pos |-> pos, op |-> "none", operands |-> <<>>]

\* the jumps of a buffer are patched: each goes forward to an instruction of
\* the buffer, a JumpNotTruthy to the instruction after a Jump that goes on
\* from there, and every Jump is the one some JumpNotTruthy jumps over
JumpsPatched(ins) ==
    \A k \in 1..Len(Decoded(ins, 0)) :
        LET d == Decoded(ins, 0)[k]
        IN  /\ d.op \in {"Jump", "JumpNotTruthy"} =>
                /\ d.operands[1] # 9999
                /\ d.operands[1] >= d.pos + 3
                /\ At(ins, d.operands[1]).op # "none"
            /\ d.op = "JumpNotTruthy" =>
                /\ At(ins, d.operands[1] - 3).op = "Jump"
                /\ At(ins, d.operands[1] - 3).pos > d.pos
                /\ At(ins, d.operands[1] - 3).operands[1] >= d.operands[1]
            /\ d.op = "Jump" =>
                \E j \in 1..Len(Decoded(ins, 0)) :
                    /\ Decoded(ins, 0)[j].op = "JumpNotTruthy"
                    /\ Decoded(ins, 0)[j].pos < d.pos
                    /\ Decoded(ins, 0)[j].operands[1] = d.pos + 3

\* the compiler an if-expression of IfPrograms is compiled by: inside the
\* function's scope when it is a function body
IfPlace(place) ==
    IF place = "function" THEN Compiler_enter_scope(Compiler_new) ELSE Compiler_new

\* the bytes a block of an if-expression compiles to, its last Pop removed
BlockLen(block, place) ==
    Len(current_instructions(remove_last_pop(compile_statements(IfPlace(place), block, 1))))

\* the bytes of the condition
CondLen(x) == Len(current_instructions(compile_expression(Compiler_new, x)))

\* the buffer the if-expression of a member of IfPrograms is compiled into
IfBuffer == IF IfCase.place = "function" THEN Buffers[2] ELSE Buffers[1]

\* the instruction after the if-expression of a member of IfPrograms, and
\* the bytes from it to the end of the buffer
IfFollower(place) ==
    CASE place = "statement" -> [op |-> "Pop", tail |-> 1]
      [] place = "let" -> [op |-> "SetGlobal", tail |-> 7]
      [] place = "function" -> [op |-> "ReturnValue", tail |-> 1]

\* C26: in every buffer compile produced no jump keeps the placeholder 9999
\* and every jump goes forward to the start of an instruction of the same
\* buffer; the JumpNotTruthy of an if-expression targets the byte after the
\* Jump that ends the consequence, where the alternative starts, and that
\* Jump targets the byte after the alternative, where the instruction that
\* follows the if-expression starts.
C26_JumpsAreAbsoluteAndPatched ==
    JustCompiled =>
        /\ \A i \in 1..Len(Buffers) : JumpsPatched(Buffers[i])
        /\ InIfPrograms =>
            LET c == IfCase
                jnt == At(IfBuffer, CondLen(c.cond.expr))
                alternative == jnt.pos + 3 + BlockLen(c.cons.block, c.place) + 3
                after == alternative + (IF c.alt.ok THEN BlockLen(c.alt.v.block, c.place)
                                        ELSE 1)
            IN  /\ jnt.op = "JumpNotTruthy"
                /\ jnt.operands = <<alternative>>
                /\ At(IfBuffer, alternative - 3).op = "Jump"
                /\ At(IfBuffer, alternative - 3).operands = <<after>>
                /\ At(IfBuffer, after).op = IfFollower(c.place).op
                /\ after = Len(IfBuffer) - IfFollower(c.place).tail

C26_Witness ==
    /\ JustCompiled
    /\ input = "fn() { if (true) { if (false) { 30 } } else { 1; 20 } }()"
    /\ Buffers[2] = make("True") \o make_u16("JumpNotTruthy", 18)
                     \o make("False") \o make_u16("JumpNotTruthy", 14)
                     \o make_u16("Constant", 0) \o make_u16("Jump", 15) \o make("Null")
                     \o make_u16("Jump", 25)
                     \o make_u16("Constant", 1) \o make("Pop") \o make_u16("Constant", 2)
                     \o make("ReturnValue")

\* the byte of IfBuffer where the instruction that follows the if-expression
\* of a member of IfPrograms starts
IfEnd == Len(IfBuffer) - IfFollower(IfCase.place).tail

\* the stack pointer when the if-expression of a member of IfPrograms is
\* entered: the bottom of the stack, or the stack pointer of the Call raised
\* by the callee's num_locals
IfBase ==
    IF IfCase.place = "function"
    THEN calls[Len(calls)].sp + current_frame(VM).cl.compiled_function.num_locals
    ELSE 0

\* the machine is about to run the instruction that follows the
\* if-expression of a member of IfPrograms
AfterIf ==
    /\ InIfPrograms
    /\ Running
    /\ frames_index = (IF IfCase.place = "function" THEN 2 ELSE 1)
    /\ IP = IfEnd

\* C27: whichever branch of an if-expression has run, and whatever its
\* blocks are (empty, or ending in a let), the stack is one value higher
\* after the if-expression than before it, and the Pop, SetGlobal or
\* ReturnValue that follows takes that value without an error.
C27_IfYieldsOneValue ==
    /\ AfterIf => sp = IfBase + 1
    /\ (InIfPrograms /\ compile_err = "none") => err = "none"

\* the function literals of an expression, of a sequence of expressions and
\* of a block, in the order the compiler adds their CompiledFunction to the
\* constant pool: a function after the functions of its body
RECURSIVE FunctionsOf(_)
RECURSIVE FunctionsOfAll(_, _)
RECURSIVE FunctionsOfBlock(_, _)
FunctionsOf(x) ==
    CASE x.e = "FunctionLiteral" -> Append(FunctionsOfBlock(x.body, 1), x)
      [] x.e = "If" ->
            FunctionsOf(x.cond) \o FunctionsOfBlock(x.cons, 1)
            \o (IF x.alt.ok THEN FunctionsOfBlock(x.alt.v, 1) ELSE <<>>)
      [] x.e = "Prefix" -> FunctionsOf(x.right)
      [] x.e = "Infix" -> FunctionsOfAll(infix_operands(x), 1)
      [] x.e = "Index" -> FunctionsOf(x.left) \o FunctionsOf(x.index)
      [] x.e = "Call" -> FunctionsOf(x.func) \o FunctionsOfAll(x.args, 1)
      [] x.e = "ArrayLiteral" -> FunctionsOfAll(x.elements, 1)
      [] x.e = "HashLiteral" ->
            FunctionsOfAll([i \in 1..(2 * Len(x.pairs)) |->
                               x.pairs[(i + 1) \div 2][2 - (i % 2)]], 1)
      [] OTHER -> <<>>

FunctionsOfAll(exprs, i) ==
    IF i > Len(exprs) THEN <<>>
    ELSE FunctionsOf(exprs[i]) \o FunctionsOfAll(exprs, i + 1)

FunctionsOfBlock(statements, i) ==
    IF i > Len(statements) THEN <<>>
    ELSE FunctionsOf(statements[i].expr) \o FunctionsOfBlock(statements, i + 1)

\* the CompiledFunctions of the constant pool, in pool order
CompiledFunctions == SelectSeq(constants, LAMBDA o : o.t = "CompiledFunction")

\* the opcode of the last instruction of a buffer, and of the one before it
LastOp(ins) ==
    IF Len(Decoded(ins, 0)) = 0 THEN "none"
    ELSE Decoded(ins, 0)[Len(Decoded(ins, 0))].op

OpBeforeLast(ins) ==
    IF Len(Decoded(ins, 0)) < 2 THEN "none"
    ELSE Decoded(ins, 0)[Len(Decoded(ins, 0)) - 1].op

\* the kind of the last statement of a block, "none" for the empty block
LastStatement(block) == IF Len(block) = 0 THEN "none" ELSE block[Len(block)].s

\* C28: the constant pool holds one CompiledFunction per function literal,
\* and each ends with ReturnValue or Return: with ReturnValue in the place
\* of the Pop when the body ends in an expression statement, with the
\* ReturnValue of the body's own return, and with an appended Return when
\* the body is empty or ends in a let; so a callee frame never stands at
\* the end of its instructions.
C28_FunctionsEndWithReturn ==
    /\ JustCompiled =>
        /\ Len(CompiledFunctions) = Len(FunctionsOfBlock(ProgramOf(input), 1))
        /\ \A i \in 1..Len(CompiledFunctions) :
            LET ins == CompiledFunctions[i].instructions
                body == FunctionsOfBlock(ProgramOf(input), 1)[i].body
            IN  /\ LastOp(ins) \in {"ReturnValue", "Return"}
                /\ OpBeforeLast(ins) # "Pop"
                /\ LastStatement(body) = "none" => ins = make("Return")
                /\ LastStatement(body) = "Let" =>
                       (LastOp(ins) = "Return" /\ OpBeforeLast(ins) = "SetLocal")
                /\ LastStatement(body) \in {"Expression", "Return"} =>
                       (LastOp(ins) = "ReturnValue"
                        /\ OpBeforeLast(ins) \notin {"none", "ReturnValue"})
    /\ (FromCompiler /\ Running /\ frames_index > 1) => IP < Len(instructions(VM))

C28_Witness ==
    /\ input = "fn() { let a = 1; }()"
    /\ CompiledFunctions[1].instructions
       = make_u16("Constant", 0) \o make_u8("SetLocal", 0) \o make("Return")
    /\ vlast.op = "Return"
    /\ frames_index = 1
    /\ Top = Null

\* the let statements of an expression, of a sequence of expressions and of
\* a block that define a name in the scope the expression stands in: those
\* of the blocks of its if-expressions too, those of its function literals not
RECURSIVE LetsOf(_)
RECURSIVE LetsOfAll(_, _)
RECURSIVE LetsOfBlock(_, _)
LetsOf(x) ==
    CASE x.e = "If" ->
            LetsOf(x.cond) + LetsOfBlock(x.cons, 1)
            + (IF x.alt.ok THEN LetsOfBlock(x.alt.v, 1) ELSE 0)
      [] x.e = "Prefix" -> LetsOf(x.right)
      [] x.e = "Infix" -> LetsOf(x.left) + LetsOf(x.right)
      [] x.e = "Index" -> LetsOf(x.left) + LetsOf(x.index)
      [] x.e = "Call" -> LetsOf(x.func) + LetsOfAll(x.args, 1)
      [] x.e = "ArrayLiteral" -> LetsOfAll(x.elements, 1)
      [] x.e = "HashLiteral" ->
            LetsOfAll([i \in 1..(2 * Len(x.pairs)) |->
                          x.pairs[(i + 1) \div 2][2 - (i % 2)]], 1)
      [] OTHER -> 0

LetsOfAll(exprs, i) ==
    IF i > Len(exprs) THEN 0 ELSE LetsOf(exprs[i]) + LetsOfAll(exprs, i + 1)

LetsOfBlock(statements, i) ==
    IF i > Len(statements) THEN 0
    ELSE (IF statements[i].s = "Let" THEN 1 ELSE 0)
         + LetsOf(statements[i].expr) + LetsOfBlock(statements, i + 1)

\* the machine has just run GetLocal in a callee frame
ReadLocal ==
    /\ FromCompiler
    /\ err = "none"
    /\ vlast.op = "GetLocal"
    /\ frames_index > 1
    /\ Len(calls) = frames_index - 1

\* the operand of that GetLocal
LocalIndex == ins_at(VM, vlast.ip + 1)

\* C29: the CompiledFunction of a function literal has the number of its
\* parameters as num_parameters and the number of definitions of its own
\* scope (its parameters and its let statements, those of nested functions
\* left out) as num_locals; and GetLocal i of a callee, for i below the
\* number of parameters, pushes the i-th argument of the call.
C29_LocalsAndParameters ==
    /\ JustCompiled =>
        \A i \in 1..Len(CompiledFunctions) :
            LET x == FunctionsOfBlock(ProgramOf(input), 1)[i]
            IN  /\ CompiledFunctions[i].num_parameters = Len(x.parameters)
                /\ CompiledFunctions[i].num_locals
                   = Len(x.parameters) + LetsOfBlock(x.body, 1)
    /\ (ReadLocal /\ LocalIndex < current_frame(VM).cl.compiled_function.num_parameters)
       => /\ Top.t = calls[Len(calls)].args[LocalIndex + 1].t
          /\ Top = calls[Len(calls)].args[LocalIndex + 1]

\* the operands of the GetFree instructions of a buffer
FreeIndices(ins) ==
    {Decoded(ins, 0)[k].operands[1] :
        k \in {j \in 1..Len(Decoded(ins, 0)) : Decoded(ins, 0)[j].op = "GetFree"}}

\* every Closure c k of a buffer follows k loads of a local or of a captured
\* value, and the function it names reads GetFree 0 .. GetFree k-1
ClosuresLoaded(ins) ==
    \A j \in 1..Len(Decoded(ins, 0)) :
        LET d == Decoded(ins, 0)[j]
        IN  d.op = "Closure" =>
                /\ j > d.operands[2]
                /\ \A m \in 1..d.operands[2] :
                       Decoded(ins, 0)[j - m].op \in {"GetLocal", "GetFree"}
                /\ d.operands[1] < Len(constants)
                /\ constants[d.operands[1] + 1].t = "CompiledFunction"
                /\ FreeIndices(constants[d.operands[1] + 1].instructions)
                   = 0..(d.operands[2] - 1)

\* the member of ClosurePrograms compiled
ClosureCase == ClosurePrograms[CHOOSE k \in 1..Len(ClosurePrograms) :
                                  ClosurePrograms[k].src = input]

\* C30: a Closure c k stands right after k loads, one per name the function
\* captures, each a GetLocal or a GetFree of the enclosing scope, and the
\* function reads the captured values as GetFree 0 .. GetFree k-1; the
\* programs of closure_test compile to the constants and instructions the
\* test lists.
C30_FreeSymbolsLoadedBeforeClosure ==
    JustCompiled =>
        /\ \A i \in 1..Len(Buffers) : ClosuresLoaded(Buffers[i])
        /\ (\E k \in 1..Len(ClosurePrograms) : ClosurePrograms[k].src = input)
           => /\ constants = ClosureCase.expected_constants
              /\ Buffers[1] = ClosureCase.expected_instructions

(***************************************************************************)
(* Claims about array and hash literals (checked under Spec)               *)
(***************************************************************************)
InHashPrograms == \E n \in 1..Len(HashPrograms) : HashPrograms[n].src = input

\* the member of HashPrograms that is running
HashCase == HashPrograms[CHOOSE n \in 1..Len(HashPrograms) : HashPrograms[n].src = input]

\* the keys of a hash literal have pairwise different values
DistinctKeys(keys) ==
    \A i, j \in 1..Len(keys) :
        i # j => to_hashable_object(keys[i]) # to_hashable_object(keys[j])

\* C31: the compiler leaves key i and value i of a hash literal next to each
\* other on the stack, key below value, in source order; and when the keys
\* are pairwise different the hash the Hash instruction builds has exactly
\* those keys and maps key i to value i.
C31_HashMapsKeysToValues ==
    /\ (InHashPrograms /\ Running /\ Fetch("Hash")) =>
        \A i \in 1..Len(HashCase.keys) :
            /\ to_hashable_object(StackAt(VM, 2 * i - 2))
               = to_hashable_object(HashCase.keys[i])
            /\ to_hashable_object(StackAt(VM, 2 * i - 1))
               = to_hashable_object(HashCase.values[i])
    /\ (InHashPrograms /\ compile_err = "none") => err = "none"
    /\ (InHashPrograms /\ result.ok /\ DistinctKeys(HashCase.keys)) =>
        /\ result.v.t = "Hash"
        /\ DOMAIN result.v.v
           = {to_hashable_object(HashCase.keys[i]) : i \in 1..Len(HashCase.keys)}
        /\ \A i \in 1..Len(HashCase.keys) :
               to_hashable_object(result.v.v[to_hashable_object(HashCase.keys[i])])
               = to_hashable_object(HashCase.values[i])

C31_Witness ==
    /\ input = "{2: 10, \"a\": 20}"
    /\ result.ok
    /\ result.v.t = "Hash"
    /\ result.v.v[to_hashable_object(Str(<<"a">>))] = Integer(20)

InArrayPrograms == \E n \in 1..Len(ArrayPrograms) : ArrayPrograms[n].src = input

\* the member of ArrayPrograms that is running
ArrayCase ==
    ArrayPrograms[CHOOSE n \in 1..Len(ArrayPrograms) : ArrayPrograms[n].src = input]

\* the HashLiteral arm of eval_expression (evaluator.rs): the first n pairs
\* inserted in source order
RECURSIVE eval_hash_literal(_, _, _)
eval_hash_literal(keys, values, n) ==
    IF n = 0 THEN EmptyMap
    ELSE Insert(eval_hash_literal(keys, values, n - 1),
                to_hashable_object(keys[n]), values[n])

\* C32: the array built for [e1, .., en] holds the value of ei at index i,
\* and the hash built for a hash literal is the one that inserting its
\* pairs in source order gives: for a key that occurs in several pairs it
\* holds the value of the last of them.
C32_BuildPreservesSourceOrder ==
    /\ (InArrayPrograms /\ result.ok) =>
        /\ result.v.t = "Array"
        /\ Len(result.v.v) = Len(ArrayCase.values)
        /\ \A i \in 1..Len(ArrayCase.values) :
               to_hashable_object(result.v.v[i]) = to_hashable_object(ArrayCase.values[i])
    /\ (InHashPrograms /\ result.ok) =>
        /\ result.v.t = "Hash"
        /\ result.v.v = eval_hash_literal(HashCase.keys, HashCase.values,
                                          Len(HashCase.keys))

(***************************************************************************)
(* Claims about operand widths (checked under SpecEmit)                    *)
(***************************************************************************)
\* a statement about a local of the function has been compiled
EmitCase == code.step \in {"let", "get"} /\ code.op \in {"SetLocal", "GetLocal"}

\* C33: the 8-bit operand of the SetLocal or GetLocal the compiler emits for
\* a local equals the index of that local in the symbol table; an index that
\* does not fit in a byte is never truncated into another operand
C33_OperandsEncodeIndices ==
    EmitCase => (code.read.ok /\ code.read.operands = code.operands)

(***************************************************************************)
(* Claims about the balance of the stack (checked under Spec)              *)
(***************************************************************************)
\* the lengths of the main buffer at which a top-level statement of the
\* program ends
StatementEnds(src) ==
    {Len(current_instructions(compile(Compiler_new, SubSeq(ProgramOf(src), 1, k)))) :
        k \in 1..Len(ProgramOf(src))}

\* the ip of the main frame
MainIp == IF Len(frames) >= 1 THEN frames[1].ip ELSE -1

\* the machine has run a top-level statement to its end without an error
AtStatementEnd ==
    /\ FromCompiler
    /\ repl = NoRepl
    /\ compile_err = "none"
    /\ err = "none"
    /\ vlast.op # "new"
    /\ MainIp \in StatementEnds(input)

\* C34: when a top-level statement has been executed to its end without an
\* error, sp is 0 and the main frame is the only frame.
C34_StackBalancedBetweenStatements ==
    AtStatementEnd => (sp = 0 /\ frames_index = 1 /\ Len(frames) = 1)

C34_Witness ==
    /\ AtStatementEnd
    /\ input = "let sum = fn(a, b) { let c = a + b; c; }; sum(1, 2) + sum(3, 4);"
    /\ vlast.op = "Pop"
    /\ calls = <<>>
    /\ sp = 0

(***************************************************************************)
(* Claims about the scopes compile leaves behind (checked under Spec)      *)
(***************************************************************************)
\* the line the loop compiled last is a let statement
ReplLet == repl.round >= 1 /\ ReplLines[repl.line].binds.ok

\* C35: whatever compile returned, Ok or a CompileError, the symbol table it
\* worked on is at the scope depth it had before (the outermost scope), so
\* that a let the loop compiles in a later round emits SetGlobal.
C35_CompileLeavesScopesBalanced ==
    /\ tbl.store_index = 1
    /\ Len(tbl.stores) = 1
    /\ (ReplLet /\ compile_err = "none" /\ vlast.op = "new")
       => LastOp(frames[1].cl.compiled_function.instructions) = "SetGlobal"

(***************************************************************************)
(* Claims about the scopes resolve touches (checked under SpecSym)         *)
(***************************************************************************)
\* what name resolves to in the scope that encloses the current one of t
ResolvedOutside(t, name) ==
    LET r == resolve(leave_scope(t), name)
    IN  IF r.ok THEN Some(r.sym) ELSE None

\* the last operation was a resolve in a scope that has an enclosing scope
ResolvedInside == last.op = "resolve" /\ tbl.store_index > 1

\* C36: a resolve in an inner scope leaves the store of every enclosing scope
\* as it was, the mapping of the name and free_symbols, so that after
\* leave_scope every name resolves in the enclosing scope to the symbol it
\* resolved to before, a Local to the same Local with the same index.
C36_ResolveLeavesEnclosingScopes ==
    ResolvedInside
    => /\ \A i \in 1..(tbl.store_index - 1) : tbl.stores[i] = last.pre.stores[i]
       /\ \A n \in SymNames :
             /\ ResolvedOutside(tbl, n).ok = ResolvedOutside(last.pre, n).ok
             /\ ResolvedOutside(tbl, n).ok
                => ResolvedOutside(tbl, n).v = ResolvedOutside(last.pre, n).v

(***************************************************************************)
(* Claims about the caller's part of the stack (checked under Spec)        *)
(***************************************************************************)
\* the last step returned from a closure to its caller
Returned == vlast.op \in {"Return", "ReturnValue"} /\ err = "none" /\ vlast.rec.ok

\* the slots below the callee when the main frame fetched Call, as they were
\* then (kept for the calls of the main frame)
Below == vlast.rec.v.below

\* C37: when a call of the main frame has returned, every stack slot below
\* the callee's slot (below bp - 1) holds the value it held when Call was
\* fetched.
C37_CallKeepsCallerSlots ==
    Returned
    => \A i \in DOMAIN Below :
          /\ StackAt(VM, i).t = Below[i].t
          /\ StackAt(VM, i) = Below[i]

(***************************************************************************)
(* Claims about the main frame (checked under Spec)                        *)
(***************************************************************************)
\* the last step was a Return or ReturnValue fetched by the main frame
TopLevelReturn ==
    FromCompiler /\ vlast.op \in {"Return", "ReturnValue"} /\ vlast.frames_index = 1

\* C38: the main frame is never popped: frames_index is at least 1 in every
\* state, and a return at top level neither unwinds below the main frame nor
\* computes bp - 1 for the main frame's bp of 0 (which panics in a debug
\* build and wraps around in a release build).
C38_MainFrameNeverPopped ==
    FromCompiler
    => /\ frames_index >= 1
       /\ Len(frames) >= 1
       /\ TopLevelReturn => (err # "panic" /\ sp < STACK_SIZE)

(***************************************************************************)
(* Claims about division (checked under Spec)                              *)
(***************************************************************************)
\* the last step was a Div of two integers with the divisor 0
DividedByZero ==
    /\ vlast.op = "Div"
    /\ vlast.sp >= 2
    /\ vlast.top.t = "Integer"
    /\ vlast.second.t = "Integer"
    /\ vlast.top.v = 0

\* C39: a Div of two integers with the divisor 0 makes run return a VmError:
\* it pushes no result and does not end the machine in any other way (a
\* panic).
C39_DivisionByZeroIsVmError ==
    DividedByZero => (err \notin {"none", "panic"} /\ sp = vlast.sp - 2)

(***************************************************************************)
(* Claims about jumps and termination (checked under SpecRun)              *)
(***************************************************************************)
\* every jump of a buffer goes forward, to a byte after its own
ForwardJumps(ins) ==
    \A k \in 1..Len(Decoded(ins, 0)) :
        LET d == Decoded(ins, 0)[k]
        IN  d.op \in {"Jump", "JumpNotTruthy"}
            => (d.operands[1] >= 1 /\ d.operands[1] > d.pos)

\* no buffer of the program holds a Call
NoCallInstruction ==
    \A i \in 1..Len(Buffers) :
        \A k \in 1..Len(Decoded(Buffers[i], 0)) : Decoded(Buffers[i], 0)[k].op # "Call"

\* a pass of the loop that stays in its frame and returns no error moves the
\* ip of the frame forward
IpAdvances ==
    (/\ FromCompiler
     /\ vlast'.op \notin {"new", "Finish"}
     /\ err' = "none"
     /\ frames_index' = frames_index
     /\ Len(frames') = Len(frames))
    => frames'[frames_index].ip > frames[frames_index].ip

\* run has returned, a value or an error
RunReturned == result.ok \/ err # "none"

\* C40: every jump the compiler emitted goes forward and has a target of at
\* least 1; between calls the ip of a frame grows with every instruction;
\* and run returns for every compiled program without a Call instruction.
C40_ForwardJumpsAndTermination ==
    /\ [](JustCompiled => \A i \in 1..Len(Buffers) : ForwardJumps(Buffers[i]))
    /\ [][IpAdvances]_vars
    /\ ((JustCompiled /\ NoCallInstruction) ~> RunReturned)

C40_Witness ==
    /\ FromCompiler
    /\ input = "if (false) { 10 } else { 1; 20 }"
    /\ NoCallInstruction
    /\ vlast.op = "Finish"
    /\ result.ok
    /\ result.v = Integer(20)
====
